---- MODULE Spec2Model ----
(***************************************************************************)
(* A model of the structural parser (src/src/pipeline/structural_parser.py) *)
(* and of the chunk assembly engine (src/src/pipeline/chunk_assembly.py).   *)
(*                                                                         *)
(* Text.  A Python string is modelled by the list of its lines, i.e. by    *)
(* s.split("\n"), which always has at least one element: "" is <<BL>>.     *)
(* A line is a record  [k, w, v, id]:                                      *)
(*   k   what the profile's regular expressions see in the line            *)
(*       ("blank", "text", "step", "astep", "callout", "table", "head1",   *)
(*        "caps", "xref", "fig"),                                          *)
(*   w   the number of whitespace-separated words of the line,             *)
(*   v   the value a pattern's group(1) extracts (step number, heading     *)
(*       id, figure id, ...),                                              *)
(*   id  the identity of the line in the document (0 for a blank line),    *)
(*       kept so that a line can be followed into the chunks.              *)
(* Whitespace inside a line is abstracted: every whitespace-only line is   *)
(* the empty line BL.  Line positions inside a text are 1-based here and   *)
(* 0-based in the source; Boundary.line_number and LineRange.start keep    *)
(* the source's 0-based global line numbers.                               *)
(*                                                                         *)
(* Specifications.  Spec is cmd_process from the cleaned pages on: detect,  *)
(* filter, manifest, assemble.  SpecParse is the structural parser alone,  *)
(* over documents made of headings and over the filter settings.  SpecCall *)
(* calls R2, R3 and the cross-entry merge directly on their own inputs.    *)
(***************************************************************************)
EXTENDS Integers, Sequences, FiniteSets, TLC

VARIABLES pc, pages, profile, boundaries, manifest, result_chunks, args, ret,
          output_file, loaded

vars == <<pc, pages, profile, boundaries, manifest, result_chunks, args, ret,
          output_file, loaded>>

----------------------------------------------------------------------------
(* Lines and strings                                                        *)

Ln(k, w, v, id) == [k |-> k, w |-> w, v |-> v, id |-> id]

BL == Ln("blank", 0, 0, 0)

IsBlank(l) == l.k = "blank"

Idx(n) == [i \in 1..n |-> i]

SetMin(S) == CHOOSE x \in S : \A y \in S : x <= y

SetMax(S) == CHOOSE x \in S : \A y \in S : x >= y

RECURSIVE Concat(_)
Concat(ss) == IF ss = <<>> THEN <<>> ELSE Head(ss) \o Concat(Tail(ss))

\* "\n".join(lines): the list of lines of the joined string ("" for no line).
JoinLines(ls) == IF ls = <<>> THEN <<BL>> ELSE ls

\* lines[a:b] of the source, as the 1-based inclusive range a..b.
Slice(ls, a, b) == IF a > b THEN <<>> ELSE SubSeq(ls, a, b)

\* str.strip(): the lines from the first to the last non-blank line.
strip(text) ==
    LET nb == {i \in 1..Len(text) : ~IsBlank(text[i])}
    IN  IF nb = {} THEN <<BL>> ELSE SubSeq(text, SetMin(nb), SetMax(nb))

\* a + "\n" + b
JoinNL(a, b) == a \o b

\* a + "\n\n" + b
JoinPara(a, b) == a \o <<BL>> \o b

\* bool(s) for a string s
NonEmpty(text) == text # <<BL>>

RECURSIVE Words(_)
Words(text) == IF text = <<>> THEN 0 ELSE Head(text).w + Words(Tail(text))

TOKEN_ESTIMATE_FACTOR == 1

count_tokens(text) ==
    IF \A i \in 1..Len(text) : IsBlank(text[i]) THEN 0
    ELSE Words(text) * TOKEN_ESTIMATE_FACTOR

----------------------------------------------------------------------------
(* Patterns of the profile.  A pattern is named by what it matches; search  *)
(* tells whether re.search finds it in the stripped line, and group(1) is   *)
(* the line's v.                                                            *)

PatSearch(pat, l) ==
    \/ pat = "num"     /\ l.k = "step"      \* ^\((\d+)\)\s
    \/ pat = "alpha"   /\ l.k = "astep"     \* ^([a-z])\.\s
    \/ pat = "warning" /\ l.k = "callout" /\ l.v = 1
    \/ pat = "caution" /\ l.k = "callout" /\ l.v = 2
    \/ pat = "l1"      /\ l.k = "head1"     \* ^(\d+) \w
    \/ pat = "l1_nogroup" /\ l.k = "head1"  \* ^\d+ \w
    \/ pat = "allcaps" /\ l.k = "caps"      \* all-caps line of 2+ words
    \/ pat = "xref"    /\ l.k = "xref"
    \/ pat = "fig"     /\ l.k = "fig"

\* re.compile(pat) succeeds; "unclosed" is a pattern such as "(unclosed"
PatCompiles(pat) == pat # "unclosed"

\* match.group(1) exists: the pattern has a capturing group
PatHasGroup(pat) == pat # "l1_nogroup"

\* str.isdigit() of group(1) of a step pattern
GroupIsDigit(pat) == pat = "num"

\* str.isalpha() of group(1) of a step pattern
GroupIsAlpha(pat) == pat = "alpha"

----------------------------------------------------------------------------
(* detect_step_sequences                                                    *)

IsStepLine(l, step_patterns) ==
    \E p \in 1..Len(step_patterns) : PatSearch(step_patterns[p], l)

StepLines(text, step_patterns) ==
    SelectSeq(Idx(Len(text)), LAMBDA i : IsStepLine(text[i], step_patterns))

\* A restart at any step that does not count up, not only at a step back at 1 or a
RestartsOnAnyDrop(curr, prev, step_patterns) ==
    /\ \E p \in 1..Len(step_patterns) :
           PatSearch(step_patterns[p], curr) /\ PatSearch(step_patterns[p], prev)
    /\ curr.v <= prev.v

Restarts(curr, prev, step_patterns) ==
    LET both == {p \in 1..Len(step_patterns) :
                    PatSearch(step_patterns[p], curr) /\ PatSearch(step_patterns[p], prev)}
    IN  /\ both # {}
        /\ LET pat == step_patterns[SetMin(both)]
           IN  \/ GroupIsDigit(pat) /\ curr.v <= prev.v /\ curr.v = 1
               \/ GroupIsAlpha(pat) /\ curr.v <= prev.v /\ curr.v = 1

RECURSIVE GroupStepLines(_, _, _, _, _, _, _)
GroupStepLines(text, step_patterns, sl, i, seq_start, seq_end, sequences) ==
    IF i > Len(sl) THEN Append(sequences, <<seq_start, seq_end>>)
    ELSE IF /\ Restarts(text[sl[i]], text[sl[i - 1]], step_patterns)
            /\ sl[i] - sl[i - 1] > 1
         THEN GroupStepLines(text, step_patterns, sl, i + 1, sl[i], sl[i],
                             Append(sequences, <<seq_start, seq_end>>))
         ELSE GroupStepLines(text, step_patterns, sl, i + 1, seq_start, sl[i], sequences)

detect_step_sequences(text, step_patterns) ==
    LET sl == StepLines(text, step_patterns)
    IN  IF sl = <<>> THEN <<>>
        ELSE GroupStepLines(text, step_patterns, sl, 2, sl[1], sl[1], <<>>)

----------------------------------------------------------------------------
(* R3: apply_rule_r3_never_split_steps                                      *)

RECURSIVE R3Loop(_, _, _, _)
R3Loop(lines, protected, current_pos, chunks) ==
    IF protected = <<>>
    THEN LET after == strip(JoinLines(Slice(lines, current_pos, Len(lines))))
         IN  IF current_pos <= Len(lines) /\ NonEmpty(after)
             THEN Append(chunks, after) ELSE chunks
    ELSE LET seq_start == Head(protected)[1]
             seq_end   == Head(protected)[2]
             before    == strip(JoinLines(Slice(lines, current_pos, seq_start - 1)))
             c1        == IF current_pos < seq_start /\ NonEmpty(before)
                          THEN Append(chunks, before) ELSE chunks
             step_text == strip(JoinLines(Slice(lines, seq_start, seq_end)))
             c2        == IF NonEmpty(step_text) THEN Append(c1, step_text) ELSE c1
         IN  R3Loop(lines, Tail(protected), seq_end + 1, c2)

apply_rule_r3_never_split_steps(text, step_patterns) ==
    LET sequences == detect_step_sequences(text, step_patterns)
    IN  IF sequences = <<>> THEN <<text>>
        ELSE LET chunks == R3Loop(text, sequences, 1, <<>>)
             IN  IF chunks # <<>> THEN chunks ELSE <<text>>

----------------------------------------------------------------------------
(* R2: apply_rule_r2_size_targets                                           *)

MaxTokensR2 == 2000

\* The pieces of one line of more than max_tokens words, split at words: every
\* piece but the last has max_tokens words; the line's marker stays in the first.
\* No split at words: the line is one piece whatever its size
WholeLine(line, max_tokens, first) == <<line>>

RECURSIVE WordPieces(_, _, _)
WordPieces(line, max_tokens, first) ==
    LET here == IF first THEN line ELSE Ln("text", line.w, 0, line.id)
    IN  IF line.w * TOKEN_ESTIMATE_FACTOR <= max_tokens THEN <<here>>
        ELSE <<[here EXCEPT !.w = max_tokens]>>
             \o WordPieces([line EXCEPT !.w = line.w - max_tokens], max_tokens, FALSE)

RECURSIVE SentLoop(_, _, _, _)
SentLoop(lines, max_tokens, current_lines, chunks) ==
    IF lines = <<>>
    THEN IF current_lines # <<>> THEN Append(chunks, JoinLines(current_lines)) ELSE chunks
    ELSE LET line      == Head(lines)
             candidate == JoinLines(Append(current_lines, line))
         IN  IF count_tokens(candidate) <= max_tokens
             THEN SentLoop(Tail(lines), max_tokens, Append(current_lines, line), chunks)
             ELSE LET c1 == IF current_lines # <<>>
                            THEN Append(chunks, JoinLines(current_lines)) ELSE chunks
                  IN  IF count_tokens(<<line>>) > max_tokens
                      THEN LET ps == WordPieces(line, max_tokens, TRUE)
                               full == [i \in 1..(Len(ps) - 1) |-> <<ps[i]>>]
                           IN  SentLoop(Tail(lines), max_tokens, <<ps[Len(ps)]>>, c1 \o full)
                      ELSE SentLoop(Tail(lines), max_tokens, <<line>>, c1)

_split_by_sentences(text, max_tokens) ==
    LET chunks == SentLoop(text, max_tokens, <<>>, <<>>)
    IN  IF chunks # <<>> THEN chunks ELSE <<text>>

\* re.split(r'\n\s*\n', text): a separator runs from the newline that ends line i
\* over the blank lines i+1..j to the newline that ends line j.
RECURSIVE SplitParagraphs(_)
SplitParagraphs(text) ==
    LET n  == Len(text)
        at == {i \in 1..(n - 2) : IsBlank(text[i + 1])}
    IN  IF at = {} THEN <<text>>
        ELSE LET i == SetMin(at)
                 j == SetMax({m \in (i + 1)..(n - 1) :
                                 \A q \in (i + 1)..m : IsBlank(text[q])})
             IN  <<SubSeq(text, 1, i)>> \o SplitParagraphs(SubSeq(text, j + 1, n))

RECURSIVE ParaLoop(_, _, _, _)
ParaLoop(paragraphs, max_tokens, current, chunks) ==
    IF paragraphs = <<>>
    THEN IF NonEmpty(current) THEN Append(chunks, current) ELSE chunks
    ELSE LET para      == Head(paragraphs)
             candidate == IF NonEmpty(current) THEN strip(JoinPara(current, para)) ELSE para
         IN  IF count_tokens(candidate) <= max_tokens
             THEN ParaLoop(Tail(paragraphs), max_tokens, candidate, chunks)
             ELSE LET c1 == IF NonEmpty(current) THEN Append(chunks, current) ELSE chunks
                  IN  IF count_tokens(para) > max_tokens
                      \* current is not reset here: it is still the fragment just emitted
                      THEN ParaLoop(Tail(paragraphs), max_tokens, current,
                                    c1 \o _split_by_sentences(para, max_tokens))
                      ELSE ParaLoop(Tail(paragraphs), max_tokens, para, c1)

_split_oversized(text, max_tokens) ==
    LET paragraphs == SplitParagraphs(text)
    IN  IF Len(paragraphs) > 1
        THEN LET chunks == ParaLoop(paragraphs, max_tokens, <<BL>>, <<>>)
             IN  IF chunks # <<>> THEN chunks ELSE <<text>>
        ELSE _split_by_sentences(text, max_tokens)

RECURSIVE apply_rule_r2_size_targets(_)
apply_rule_r2_size_targets(chunks) ==
    IF chunks = <<>> THEN <<>>
    ELSE LET chunk == Head(chunks)
         IN  (IF count_tokens(chunk) <= MaxTokensR2 THEN <<chunk>>
              ELSE _split_oversized(chunk, MaxTokensR2))
             \o apply_rule_r2_size_targets(Tail(chunks))

----------------------------------------------------------------------------
(* detect_safety_callouts                                                   *)

\* The two expressions written out in detect_safety_callouts for "a line that
\* starts a numbered step": ^\(\d+\)\s and ^[a-z]\.\s
StartsNumberedStep(l) == l.k = "step" \/ l.k = "astep"

IsCalloutStart(l, safety_callouts) ==
    \E q \in 1..Len(safety_callouts) : PatSearch(safety_callouts[q].pattern, l)

\* The last line of the callout that starts at line i.
CalloutEnd(lines, i, safety_callouts) ==
    LET stop == {j \in (i + 1)..Len(lines) :
                    \/ IsBlank(lines[j])
                    \/ IsCalloutStart(lines[j], safety_callouts)
                    \/ StartsNumberedStep(lines[j])}
    IN  IF stop = {} THEN Len(lines) ELSE SetMin(stop) - 1

CalloutsOf(lines, sc, safety_callouts) ==
    LET starts == SelectSeq(Idx(Len(lines)), LAMBDA i : PatSearch(sc.pattern, lines[i]))
    IN  [n \in 1..Len(starts) |->
            [level |-> sc.level, start_line |-> starts[n],
             end_line |-> CalloutEnd(lines, starts[n], safety_callouts)]]

detect_safety_callouts(text, prof) ==
    Concat([q \in 1..Len(prof.safety_callouts) |->
               CalloutsOf(text, prof.safety_callouts[q], prof.safety_callouts)])

----------------------------------------------------------------------------
(* R4: apply_rule_r4_safety_attachment                                      *)

\* "not has_procedure" of R4: the callouts' line numbers are those of the chunk,
\* the lines looked at are those of chunk.strip().
SafetyOnly(chunk, prof) ==
    LET callouts == detect_safety_callouts(chunk, prof)
        lines    == strip(chunk)
        covered  == {ln \in 1..Len(lines) :
                        \E c \in 1..Len(callouts) :
                            callouts[c].start_line <= ln /\ ln <= callouts[c].end_line}
        non_callout_lines == (1..Len(lines)) \ covered
    IN  /\ callouts # <<>>
        /\ ~\E ln \in non_callout_lines : ~IsBlank(lines[ln])

RECURSIVE R4Loop(_, _, _, _)
R4Loop(result, prof, i, merged) ==
    IF i > Len(result) THEN merged
    ELSE IF i + 1 <= Len(result) /\ SafetyOnly(result[i], prof)
         THEN R4Loop(result, prof, i + 2, Append(merged, JoinPara(result[i], result[i + 1])))
         ELSE R4Loop(result, prof, i + 1, Append(merged, result[i]))

apply_rule_r4_safety_attachment(chunks, prof) == R4Loop(chunks, prof, 1, <<>>)

----------------------------------------------------------------------------
(* detect_tables and R5: apply_rule_r5_table_integrity                      *)

\* \.{3,} : a dot leader
DotLeader(l) == l.k = "table"

\* seq_start moved back over one header line: a non-blank line without dot leader
WithHeader(lines, seq_start) ==
    IF /\ seq_start > 1
       /\ ~IsBlank(lines[seq_start - 1])
       /\ ~DotLeader(lines[seq_start - 1])
    THEN seq_start - 1 ELSE seq_start

RECURSIVE GroupTableLines(_, _, _, _, _, _)
GroupTableLines(lines, tl, i, seq_start, seq_end, sequences) ==
    IF i > Len(tl) THEN Append(sequences, <<seq_start, seq_end>>)
    ELSE IF tl[i] - tl[i - 1] <= 3
         THEN GroupTableLines(lines, tl, i + 1, seq_start, tl[i], sequences)
         ELSE GroupTableLines(lines, tl, i + 1, WithHeader(lines, tl[i]), tl[i],
                              Append(sequences, <<seq_start, seq_end>>))

detect_tables(text) ==
    LET table_lines == SelectSeq(Idx(Len(text)),
                                 LAMBDA i : ~IsBlank(text[i]) /\ DotLeader(text[i]))
    IN  IF table_lines = <<>> THEN <<>>
        ELSE GroupTableLines(text, table_lines, 2, WithHeader(text, table_lines[1]),
                             table_lines[1], <<>>)

current_ends_with_table(current) ==
    LET current_tables == detect_tables(current)
        nb == {i \in 2..Len(current) : ~IsBlank(current[i])}
        non_blank_end == IF nb = {} THEN 1 ELSE SetMax(nb)
    IN  /\ current_tables # <<>>
        /\ current_tables[Len(current_tables)][2] >= non_blank_end - 1

next_starts_with_table(next_chunk) ==
    LET next_tables == detect_tables(next_chunk)
        nb == {i \in 1..Len(next_chunk) : ~IsBlank(next_chunk[i])}
        first_non_blank == IF nb = {} THEN Len(next_chunk) + 1 ELSE SetMin(nb)
    IN  /\ next_tables # <<>>
        /\ next_tables[1][1] <= first_non_blank + 1

RECURSIVE R5Loop(_, _, _)
R5Loop(chunks, i, result) ==
    IF i > Len(chunks) THEN result
    ELSE IF /\ i + 1 <= Len(chunks)
            /\ current_ends_with_table(chunks[i])
            /\ next_starts_with_table(chunks[i + 1])
         THEN R5Loop([chunks EXCEPT ![i + 1] = JoinNL(chunks[i], chunks[i + 1])], i + 1, result)
         ELSE R5Loop(chunks, i + 1, Append(result, chunks[i]))

apply_rule_r5_table_integrity(chunks) ==
    IF Len(chunks) <= 1 THEN chunks ELSE R5Loop(chunks, 1, <<>>)

----------------------------------------------------------------------------
(* R6, R7, R8                                                               *)

MinTokensR6 == 200

RECURSIVE R6Loop(_, _, _, _)
R6Loop(chunks, merge_threshold, i, result) ==
    IF i > Len(chunks) THEN result
    ELSE IF count_tokens(chunks[i]) < merge_threshold /\ i + 1 <= Len(chunks)
         THEN R6Loop([chunks EXCEPT ![i + 1] = JoinPara(chunks[i], chunks[i + 1])],
                     merge_threshold, i + 1, result)
         ELSE R6Loop(chunks, merge_threshold, i + 1, Append(result, chunks[i]))

apply_rule_r6_merge_small(chunks) ==
    IF Len(chunks) <= 1 THEN chunks
    ELSE R6Loop(chunks, MinTokensR6 \div 2, 1, <<>>)

\* stripped.isupper() and len(stripped.split()) <= 5
LooksLikeHeading(l) == l.k = "caps" /\ l.w <= 5

_is_crossref_only(text, cross_ref_patterns) ==
    LET lines == strip(text)
    IN  \A i \in 1..Len(lines) :
            \/ IsBlank(lines[i])
            \/ \E p \in 1..Len(cross_ref_patterns) : PatSearch(cross_ref_patterns[p], lines[i])
            \/ LooksLikeHeading(lines[i])

RECURSIVE R7Loop(_, _, _, _)
R7Loop(chunks, cross_ref_patterns, i, result) ==
    IF i > Len(chunks) THEN result
    ELSE IF _is_crossref_only(chunks[i], cross_ref_patterns) /\ result # <<>>
         THEN R7Loop(chunks, cross_ref_patterns, i + 1,
                     [result EXCEPT ![Len(result)] = JoinPara(result[Len(result)], chunks[i])])
         ELSE R7Loop(chunks, cross_ref_patterns, i + 1, Append(result, chunks[i]))

apply_rule_r7_crossref_merge(chunks, cross_ref_patterns) ==
    R7Loop(chunks, cross_ref_patterns, 1, <<>>)

\* The chunk's first non-blank line names a figure that the previous chunk names too.
FigureContinues(prev_chunk, chunk, figure_pattern) ==
    LET nb == {i \in 1..Len(chunk) : ~IsBlank(chunk[i])}
    IN  /\ nb # {}
        /\ LET first_line == chunk[SetMin(nb)]
           IN  /\ PatSearch(figure_pattern, first_line)
               /\ \E j \in 1..Len(prev_chunk) :
                      /\ PatSearch(figure_pattern, prev_chunk[j])
                      /\ prev_chunk[j].v = first_line.v

RECURSIVE R8Loop(_, _, _, _)
R8Loop(chunks, figure_pattern, i, result) ==
    IF i > Len(chunks) THEN result
    ELSE IF result # <<>> /\ FigureContinues(result[Len(result)], chunks[i], figure_pattern)
         THEN R8Loop(chunks, figure_pattern, i + 1,
                     [result EXCEPT ![Len(result)] = JoinPara(result[Len(result)], chunks[i])])
         ELSE R8Loop(chunks, figure_pattern, i + 1, Append(result, chunks[i]))

apply_rule_r8_figure_continuity(chunks, figure_pattern) ==
    R8Loop(chunks, figure_pattern, 1, <<>>)

----------------------------------------------------------------------------
(* Identifier strings.  A string that names something (an id, a title, a    *)
(* manual id, a "partN" suffix) is the pair <<tag, n>>; "" and None are     *)
(* pairs of their own, so that any two of them can be compared.             *)

Str(tag, n) == <<tag, n>>

EmptyStr == Str("", 0)

None == Str("None", 0)

\* x or y
OrElse(x, y) == IF x = None \/ x = EmptyStr THEN y ELSE x

----------------------------------------------------------------------------
(* structural_parser.py: detect_boundaries                                  *)

Boundary(level, level_name, id, title, page_number, line_number) ==
    [level |-> level, level_name |-> level_name, id |-> id, title |-> title,
     page_number |-> page_number, line_number |-> line_number]

HasPattern(pat) == pat # "none"

\* matches: the hierarchy levels, in profile order, whose id or title pattern is found
LevelMatches(line, hierarchy) ==
    LET hit == SelectSeq(Idx(Len(hierarchy)), LAMBDA n :
                   \/ HasPattern(hierarchy[n].id_pattern)
                      /\ PatSearch(hierarchy[n].id_pattern, line)
                   \/ HasPattern(hierarchy[n].title_pattern)
                      /\ PatSearch(hierarchy[n].title_pattern, line))
    IN  [m \in 1..Len(hit) |->
            LET h == hierarchy[hit[m]]
            IN  [level |-> h.level, level_name |-> h.name,
                 id |-> IF HasPattern(h.id_pattern) /\ PatSearch(h.id_pattern, line)
                        THEN Str("id", line.v) ELSE None,
                 title |-> IF HasPattern(h.title_pattern) /\ PatSearch(h.title_pattern, line)
                           THEN Str("title", line.v) ELSE None]]

\* No disambiguation: the first matching level whatever the current level
ChooseFirstMatch(matches, current_level) == matches[1]

\* The deepest of the deeper matches instead of the shallowest
ChooseDeepest(matches, current_level) ==
    IF Len(matches) = 1 THEN matches[1]
    ELSE LET deeper == SelectSeq(matches, LAMBDA m : m.level > current_level)
         IN  IF deeper # <<>> THEN deeper[Len(deeper)] ELSE matches[1]

ChooseLevel(matches, current_level) ==
    IF Len(matches) = 1 THEN matches[1]
    ELSE LET deeper == SelectSeq(matches, LAMBDA m : m.level > current_level)
         IN  IF deeper # <<>> THEN deeper[1] ELSE matches[1]

\* The offset left as it is at the end of a page: line numbers local to the page
OffsetPerPage(global_line_offset, lines) == global_line_offset

\* global_line_offset += len(lines)
AdvanceOffset(global_line_offset, lines) == global_line_offset + Len(lines)

\* The scan of detect_boundaries from line line_idx (1-based) of page page_idx
\* (1-based) on; page_number and line_number of a boundary are 0-based.
RECURSIVE ScanLines(_, _, _, _, _, _, _)
ScanLines(pgs, hierarchy, page_idx, line_idx, current_level, global_line_offset, found) ==
    IF page_idx > Len(pgs) THEN found
    ELSE LET lines == pgs[page_idx]
         IN  IF line_idx > Len(lines)
             THEN ScanLines(pgs, hierarchy, page_idx + 1, 1, current_level,
                            AdvanceOffset(global_line_offset, lines), found)
             ELSE LET line    == lines[line_idx]
                      matches == LevelMatches(line, hierarchy)
                  IN  IF IsBlank(line) \/ matches = <<>>
                      THEN ScanLines(pgs, hierarchy, page_idx, line_idx + 1, current_level,
                                     global_line_offset, found)
                      ELSE LET chosen == ChooseLevel(matches, current_level)
                           IN  ScanLines(pgs, hierarchy, page_idx, line_idx + 1, chosen.level,
                                         global_line_offset,
                                         Append(found,
                                                Boundary(chosen.level, chosen.level_name,
                                                         chosen.id, chosen.title, page_idx - 1,
                                                         global_line_offset + line_idx - 1)))

\* key=lambda b: b.level
KeyByLevel(a, b) == a.level <= b.level

\* key=lambda b: (b.page_number, b.line_number)
KeyLeq(a, b) ==
    \/ a.page_number < b.page_number
    \/ a.page_number = b.page_number /\ a.line_number <= b.line_number

\* list.sort(key=...): a stable sort
RECURSIVE InsertSorted(_, _)
InsertSorted(sorted, b) ==
    IF sorted = <<>> THEN <<b>>
    ELSE IF KeyLeq(sorted[Len(sorted)], b) THEN Append(sorted, b)
         ELSE Append(InsertSorted(SubSeq(sorted, 1, Len(sorted) - 1), b), sorted[Len(sorted)])

RECURSIVE SortBoundaries(_)
SortBoundaries(bs) ==
    IF bs = <<>> THEN <<>>
    ELSE InsertSorted(SortBoundaries(SubSeq(bs, 1, Len(bs) - 1)), bs[Len(bs)])

detect_boundaries(pgs, prof) ==
    SortBoundaries(ScanLines(pgs, prof.hierarchy, 1, 1, 0, 0, <<>>))

\* id_match.group(1) or title_match.group(1) raises IndexError on some line
DetectRaises(pgs, prof) ==
    \E p \in 1..Len(pgs) : \E i \in 1..Len(pgs[p]) : \E n \in 1..Len(prof.hierarchy) :
        /\ ~IsBlank(pgs[p][i])
        /\ \/ /\ HasPattern(prof.hierarchy[n].id_pattern)
              /\ PatSearch(prof.hierarchy[n].id_pattern, pgs[p][i])
              /\ ~PatHasGroup(prof.hierarchy[n].id_pattern)
           \/ /\ HasPattern(prof.hierarchy[n].title_pattern)
              /\ PatSearch(prof.hierarchy[n].title_pattern, pgs[p][i])
              /\ ~PatHasGroup(prof.hierarchy[n].title_pattern)

----------------------------------------------------------------------------
(* structural_parser.py: filter_boundaries                                  *)

\* "\n".join(pages).split("\n")
AllLines(pgs) == IF pgs = <<>> THEN <<BL>> ELSE Concat(pgs)

\* level_config: level number -> HierarchyLevel (the last one of that number)
HasLevelConfig(prof, level) ==
    \E n \in 1..Len(prof.hierarchy) : prof.hierarchy[n].level = level

LevelConfig(prof, level) ==
    prof.hierarchy[SetMax({n \in 1..Len(prof.hierarchy) : prof.hierarchy[n].level = level})]

\* known_id_sets: level -> set of ids, for the levels that require a known id
KnownIdLevels(prof) ==
    {prof.hierarchy[n].level : n \in {m \in 1..Len(prof.hierarchy) :
        prof.hierarchy[m].require_known_id /\ prof.hierarchy[m].known_ids # {}}}

KnownIdSet(prof, level) ==
    LET at == {n \in 1..Len(prof.hierarchy) :
                  /\ prof.hierarchy[n].level = level
                  /\ prof.hierarchy[n].require_known_id
                  /\ prof.hierarchy[n].known_ids # {}}
    IN  prof.hierarchy[SetMax(at)].known_ids

\* Pass 0 letting through a boundary that has no id
Pass0IdPresent(bs, prof) ==
    IF KnownIdLevels(prof) = {} THEN bs
    ELSE SelectSeq(bs, LAMBDA b :
            ~(/\ b.level \in KnownIdLevels(prof)
              /\ b.id # None /\ b.id \notin KnownIdSet(prof, b.level)))

Pass0KnownId(bs, prof) ==
    IF KnownIdLevels(prof) = {} THEN bs
    ELSE SelectSeq(bs, LAMBDA b :
            ~(/\ b.level \in KnownIdLevels(prof)
              /\ (b.id = None \/ b.id \notin KnownIdSet(prof, b.level))))

\* Pass 1 applied to the boundaries of every level once one level requires it
Pass1AnyLevel(bs, prof, all_lines) ==
    SelectSeq(bs, LAMBDA b :
        IF \E n \in 1..Len(prof.hierarchy) : prof.hierarchy[n].require_blank_before
        THEN /\ b.line_number > 0
             /\ \/ b.line_number >= Len(all_lines)
                \/ IsBlank(all_lines[b.line_number])
        ELSE TRUE)

Pass1BlankBefore(bs, prof, all_lines) ==
    SelectSeq(bs, LAMBDA b :
        IF HasLevelConfig(prof, b.level) /\ LevelConfig(prof, b.level).require_blank_before
        THEN /\ b.line_number > 0
             /\ \/ b.line_number >= Len(all_lines)
                \/ IsBlank(all_lines[b.line_number])
        ELSE TRUE)

RECURSIVE GapLoop(_, _, _, _, _)
GapLoop(bs, prof, levels_with_gap, last_line, filtered) ==
    IF bs = <<>> THEN filtered
    ELSE LET b == Head(bs)
         IN  IF b.level \in levels_with_gap
             THEN IF /\ b.level \in DOMAIN last_line
                     /\ b.line_number - last_line[b.level]
                            < LevelConfig(prof, b.level).min_gap_lines
                  THEN GapLoop(Tail(bs), prof, levels_with_gap, last_line, filtered)
                  ELSE GapLoop(Tail(bs), prof, levels_with_gap,
                               [l \in DOMAIN last_line \cup {b.level} |->
                                   IF l = b.level THEN b.line_number ELSE last_line[l]],
                               Append(filtered, b))
             ELSE GapLoop(Tail(bs), prof, levels_with_gap, last_line, Append(filtered, b))

\* The gap measured from the same-level boundary just before, dropped or not
GapFromPrevious(bs, prof) ==
    LET keep(i) ==
            LET same == {j \in 1..(i - 1) : bs[j].level = bs[i].level}
            IN  \/ ~HasLevelConfig(prof, bs[i].level)
                \/ LevelConfig(prof, bs[i].level).min_gap_lines = 0
                \/ same = {}
                \/ bs[i].line_number - bs[SetMax(same)].line_number
                      >= LevelConfig(prof, bs[i].level).min_gap_lines
        kept == SelectSeq(Idx(Len(bs)), keep)
    IN  [n \in 1..Len(kept) |-> bs[kept[n]]]

Pass2MinGap(bs, prof) ==
    LET levels_with_gap == {prof.hierarchy[n].level : n \in
                              {m \in 1..Len(prof.hierarchy) : prof.hierarchy[m].min_gap_lines > 0}}
    IN  IF levels_with_gap = {} THEN bs
        ELSE GapLoop(bs, prof, levels_with_gap, <<>>, <<>>)

\* sum(len(line.split()) for line in all_lines[start_line:end_line]), 0-based bounds
SpanWords(all_lines, start_line, end_line) ==
    LET a == start_line + 1
        b == IF end_line > Len(all_lines) THEN Len(all_lines) ELSE end_line
    IN  Words(Slice(all_lines, a, b))

\* Pass 3 with the comparison turned round: a boundary with enough words is dropped
Pass3KeepShort(bs, prof, all_lines) ==
    LET keep(i) ==
            LET end_line == IF i + 1 <= Len(bs) THEN bs[i + 1].line_number
                            ELSE Len(all_lines)
            IN  \/ ~HasLevelConfig(prof, bs[i].level)
                \/ LevelConfig(prof, bs[i].level).min_content_words = 0
                \/ SpanWords(all_lines, bs[i].line_number, end_line)
                      < LevelConfig(prof, bs[i].level).min_content_words
        kept == SelectSeq(Idx(Len(bs)), keep)
    IN  [n \in 1..Len(kept) |-> bs[kept[n]]]

Pass3MinWords(bs, prof, all_lines) ==
    LET levels_with_min_words == {prof.hierarchy[n].level : n \in
                {m \in 1..Len(prof.hierarchy) : prof.hierarchy[m].min_content_words > 0}}
        keep(i) ==
            IF bs[i].level \in levels_with_min_words
            THEN LET end_line == IF i + 1 <= Len(bs) THEN bs[i + 1].line_number
                                 ELSE Len(all_lines)
                 IN  ~(SpanWords(all_lines, bs[i].line_number, end_line)
                          < LevelConfig(prof, bs[i].level).min_content_words)
            ELSE TRUE
        kept == SelectSeq(Idx(Len(bs)), keep)
    IN  IF levels_with_min_words = {} THEN bs
        ELSE [n \in 1..Len(kept) |-> bs[kept[n]]]

\* The filter without its last pass
FilterWithoutPass3(bs, prof, pgs) ==
    IF Len(bs) = 0 THEN <<>>
    ELSE Pass2MinGap(Pass1BlankBefore(Pass0KnownId(bs, prof), prof, AllLines(pgs)), prof)

filter_boundaries(bs, prof, pgs) ==
    IF Len(bs) = 0 THEN <<>>
    ELSE LET all_lines == AllLines(pgs)
         IN  Pass3MinWords(
                 Pass2MinGap(
                     Pass1BlankBefore(Pass0KnownId(bs, prof), prof, all_lines), prof),
                 prof, all_lines)

----------------------------------------------------------------------------
(* structural_parser.py: build_manifest                                     *)

\* "::".join([manual_id] + hierarchy_ids), kept as the list of its segments
generate_chunk_id(manual_id, hierarchy_ids) == <<manual_id>> \o hierarchy_ids

\* sorted(current_ancestors.keys())
RECURSIVE SortedLevels(_)
SortedLevels(S) ==
    IF S = {} THEN <<>> ELSE <<SetMin(S)>> \o SortedLevels(S \ {SetMin(S)})

\* e.children.append(chunk_id) on the first entry whose chunk_id is the parent's
AddChild(entries, parent_chunk_id, chunk_id) ==
    LET at == {n \in 1..Len(entries) : entries[n].chunk_id = parent_chunk_id}
    IN  IF parent_chunk_id = None \/ at = {} THEN entries
        ELSE [entries EXCEPT ![SetMin(at)].children = Append(@, chunk_id)]

\* Only the ancestor of the boundary's own level is cleared
RemoveSameLevel(current_ancestors, boundary) ==
    {lvl \in DOMAIN current_ancestors : lvl = boundary.level}

\* levels_to_remove = [lvl for lvl in current_ancestors if lvl >= boundary.level]
levels_to_remove(current_ancestors, boundary) ==
    {lvl \in DOMAIN current_ancestors : lvl >= boundary.level}

\* The loop over the boundaries; the result is the list of entries and the
\* ancestor map the loop ends with.
RECURSIVE ManifestLoop(_, _, _, _)
ManifestLoop(bs, manual_id, current_ancestors, entries) ==
    IF bs = <<>> THEN [entries |-> entries, current_ancestors |-> current_ancestors]
    ELSE LET boundary == Head(bs)
             boundary_id_str    == IF boundary.id # None THEN boundary.id
                                   ELSE OrElse(boundary.title, EmptyStr)
             boundary_title_str == OrElse(boundary.title, OrElse(boundary.id, EmptyStr))
             open == DOMAIN current_ancestors
                         \ levels_to_remove(current_ancestors, boundary)
             sorted_ancestor_levels == SortedLevels(open)
             anc_ids    == [n \in 1..Len(sorted_ancestor_levels) |->
                               current_ancestors[sorted_ancestor_levels[n]].id]
             anc_titles == [n \in 1..Len(sorted_ancestor_levels) |->
                               current_ancestors[sorted_ancestor_levels[n]].title]
             chunk_id   == generate_chunk_id(manual_id, Append(anc_ids, boundary_id_str))
             parent_chunk_id == IF sorted_ancestor_levels # <<>>
                                THEN generate_chunk_id(manual_id, anc_ids) ELSE None
             entry == [chunk_id |-> chunk_id,
                       level |-> boundary.level,
                       level_name |-> boundary.level_name,
                       title |-> boundary_title_str,
                       hierarchy_path |-> Append(anc_titles, boundary_title_str),
                       content_type |-> boundary.level_name,
                       page_range |-> [start |-> boundary.page_number,
                                       end |-> boundary.page_number],
                       line_range |-> [start |-> boundary.line_number,
                                       end |-> boundary.line_number],
                       has_safety_callouts |-> {},
                       figure_references |-> {},
                       cross_references |-> {},
                       parent_chunk_id |-> parent_chunk_id,
                       children |-> <<>>]
         IN  ManifestLoop(Tail(bs), manual_id,
                 [lvl \in open \cup {boundary.level} |->
                     IF lvl = boundary.level
                     THEN [id |-> boundary_id_str, title |-> boundary_title_str,
                           idx |-> Len(entries)]
                     ELSE current_ancestors[lvl]],
                 AddChild(Append(entries, entry), parent_chunk_id, chunk_id))

build_manifest(bs, prof) ==
    [manual_id |-> prof.manual_id,
     entries |-> ManifestLoop(bs, prof.manual_id, <<>>, <<>>).entries]

----------------------------------------------------------------------------
(* chunk_assembly.py: chunks, the cross-entry merge, metadata               *)

Chunk(chunk_id, manual_id, text, metadata) ==
    [chunk_id |-> chunk_id, manual_id |-> manual_id, text |-> text, metadata |-> metadata]

\* Every chunk taken to be of one group
OneGroup(chunk) == EmptyStr

\* chunk_id.split("::")[1], or "" for an id of fewer than two segments
_extract_level1_id(chunk) ==
    IF Len(chunk.chunk_id) >= 2 THEN chunk.chunk_id[2] ELSE EmptyStr

MinTokensMerge == 200

MaxTokensMerge == 2000

max_passes == 10

\* One pass that merges whenever the ceiling allows, undersized or not
RECURSIVE MergePassNoFloor(_, _, _, _, _)
MergePassNoFloor(working, min_tokens, max_tokens, i, merged) ==
    IF i > Len(working) THEN merged
    ELSE IF /\ i + 1 <= Len(working)
            /\ _extract_level1_id(working[i]) = _extract_level1_id(working[i + 1])
            /\ count_tokens(JoinPara(working[i].text, working[i + 1].text)) <= max_tokens
         THEN MergePassNoFloor([working EXCEPT ![i + 1] =
                                   Chunk(working[i + 1].chunk_id, working[i + 1].manual_id,
                                         JoinPara(working[i].text, working[i + 1].text),
                                         working[i + 1].metadata)],
                               min_tokens, max_tokens, i + 1, merged)
         ELSE MergePassNoFloor(working, min_tokens, max_tokens, i + 1,
                               Append(merged, working[i]))

\* One pass whose bound on i is off by one: the last chunk never absorbs its
\* predecessor
RECURSIVE MergePassSkipsLast(_, _, _, _, _)
MergePassSkipsLast(working, min_tokens, max_tokens, i, merged) ==
    IF i > Len(working) THEN merged
    ELSE LET current == working[i]
         IN  IF /\ count_tokens(current.text) < min_tokens
                /\ i + 2 <= Len(working)
                /\ _extract_level1_id(current) = _extract_level1_id(working[i + 1])
                /\ count_tokens(JoinPara(current.text, working[i + 1].text)) <= max_tokens
             THEN MergePassSkipsLast([working EXCEPT ![i + 1] =
                                         Chunk(working[i + 1].chunk_id, working[i + 1].manual_id,
                                               JoinPara(current.text, working[i + 1].text),
                                               working[i + 1].metadata)],
                                     min_tokens, max_tokens, i + 1, merged)
             ELSE MergePassSkipsLast(working, min_tokens, max_tokens, i + 1,
                                     Append(merged, current))

\* One pass of merge_small_across_entries: the while loop over working.
RECURSIVE MergePass(_, _, _, _, _)
MergePass(working, min_tokens, max_tokens, i, merged) ==
    IF i > Len(working) THEN merged
    ELSE LET current == working[i]
         IN  IF /\ count_tokens(current.text) < min_tokens
                /\ i + 1 <= Len(working)
                /\ _extract_level1_id(current) = _extract_level1_id(working[i + 1])
                /\ count_tokens(JoinPara(current.text, working[i + 1].text)) <= max_tokens
             THEN MergePass([working EXCEPT ![i + 1] =
                                Chunk(working[i + 1].chunk_id, working[i + 1].manual_id,
                                      JoinPara(current.text, working[i + 1].text),
                                      working[i + 1].metadata)],
                            min_tokens, max_tokens, i + 1, merged)
             ELSE MergePass(working, min_tokens, max_tokens, i + 1, Append(merged, current))

\* The passes from pass_num (0-based) on: the list reached and the passes run.
RECURSIVE MergePasses(_, _, _, _)
MergePasses(working, min_tokens, max_tokens, pass_num) ==
    IF pass_num >= max_passes THEN [working |-> working, passes |-> pass_num]
    ELSE LET merged == MergePass(working, min_tokens, max_tokens, 1, <<>>)
         IN  IF Len(merged) = Len(working)
             THEN [working |-> merged, passes |-> pass_num + 1]
             ELSE MergePasses(merged, min_tokens, max_tokens, pass_num + 1)

merge_small_across_entries(chunks, min_tokens, max_tokens) ==
    IF chunks = <<>> THEN <<>>
    ELSE MergePasses(chunks, min_tokens, max_tokens, 0).working

\* The scanned fields returned as a map of their own, the other keys left out
ScannedFieldsOnly(text, metadata, prof) ==
    [has_safety_callouts |-> {}, figure_references |-> {}, cross_references |-> {}]

\* The three keys enrich_chunk_metadata sets, from the text it is given.
enrich_chunk_metadata(text, metadata, prof) ==
    LET callouts == detect_safety_callouts(text, prof)
        figs  == IF HasPattern(prof.figure_reference_pattern)
                 THEN {text[i].v : i \in {j \in 1..Len(text) :
                          PatSearch(prof.figure_reference_pattern, text[j])}}
                 ELSE {}
        xrefs == {text[i].v : i \in {j \in 1..Len(text) :
                     \E p \in 1..Len(prof.cross_reference_patterns) :
                         PatSearch(prof.cross_reference_patterns[p], text[j])}}
    IN  [metadata EXCEPT
            !.has_safety_callouts = {callouts[c].level : c \in 1..Len(callouts)},
            !.figure_references   = figs,
            !.cross_references    = IF metadata.manual_id # EmptyStr
                                    THEN {<<metadata.manual_id, r>> : r \in xrefs}
                                    ELSE {<<EmptyStr, r>> : r \in xrefs}]

\* name.lower() in text_lower or name in text: a line of kind "vehicle",
\* "engine" or "drive" holds the name of that kind with the line's number
Mentions(text, name) ==
    \E i \in 1..Len(text) : text[i].k = name[1] /\ text[i].v = name[2]

\* the list without the repeats of an entry already in it
RECURSIVE Unique(_)
Unique(names) ==
    IF names = <<>> THEN <<>>
    ELSE LET rest == Unique(SubSeq(names, 1, Len(names) - 1))
             last == names[Len(names)]
         IN  IF \E n \in 1..Len(rest) : rest[n] = last THEN rest ELSE Append(rest, last)

tag_vehicle_applicability(text, prof) ==
    LET models == SelectSeq([n \in 1..Len(prof.vehicles) |-> prof.vehicles[n].model],
                            LAMBDA name : Mentions(text, name))
        engines == Concat([n \in 1..Len(prof.vehicles) |-> prof.vehicles[n].engines])
        named == SelectSeq(engines, LAMBDA e :
                     \/ Mentions(text, e.name) \/ Mentions(text, e.code)
                     \/ \E a \in 1..Len(e.aliases) : Mentions(text, e.aliases[a]))
        drives == SelectSeq(Concat([n \in 1..Len(prof.vehicles) |->
                                       prof.vehicles[n].drive_type]),
                            LAMBDA name : Mentions(text, name))
        or_all(names) == IF names = <<>> THEN <<"all">> ELSE Unique(names)
    IN  [vehicle_models |-> or_all(models),
         engine_applicability |-> or_all([n \in 1..Len(named) |-> named[n].name]),
         drivetrain_applicability |-> or_all(drives)]

compose_hierarchical_header(prof, hierarchy_path) == <<prof.manual_title>> \o hierarchy_path

----------------------------------------------------------------------------
(* chunk_assembly.py: assemble_chunks                                       *)

apply_rule_r1_primary_unit(text) ==
    IF strip(text) = <<BL>> THEN <<>> ELSE <<text>>

\* str.startswith for two identifier strings: numerals compare digit by digit
RECURSIVE StrStartsWith(_, _)
StrStartsWith(x, prefix) ==
    \/ x = prefix
    \/ /\ x[1] = "id" /\ prefix[1] = "id" /\ x[2] >= 10
       /\ StrStartsWith(Str("id", x[2] \div 10), prefix)

\* The skip test as an equality: only the entry named s itself, not those below it
SkipsOnlyNamed(chunk_id, manual_id, s) == chunk_id = <<manual_id, s>>

\* entry.chunk_id.startswith(manual_id + "::" + s)
UnderSkipPrefix(chunk_id, manual_id, s) ==
    /\ Len(chunk_id) >= 2
    /\ chunk_id[1] = manual_id
    /\ StrStartsWith(chunk_id[2], s)

\* The text span of entry entry_idx: lines[start_line:end_line], stripped.
EntryText(lines, entries, entry_idx) ==
    LET start_line == entries[entry_idx].line_range.start
        end_line   == IF entry_idx + 1 <= Len(entries)
                      THEN entries[entry_idx + 1].line_range.start ELSE Len(lines)
        stop       == IF end_line > Len(lines) THEN Len(lines) ELSE end_line
    IN  strip(JoinLines(Slice(lines, start_line + 1, stop)))

EntrySkipped(lines, mf, prof, entry_idx) ==
    \/ \E n \in 1..Len(prof.skip_sections) :
           UnderSkipPrefix(mf.entries[entry_idx].chunk_id, mf.manual_id, prof.skip_sections[n])
    \/ mf.entries[entry_idx].line_range.start >= Len(lines)
    \/ ~NonEmpty(EntryText(lines, mf.entries, entry_idx))

\* Phase 1 of the rule pipeline: R1, R3, R4, R5
SemanticPhase(text, prof) ==
    LET r1 == apply_rule_r1_primary_unit(text)
        r3 == Concat([n \in 1..Len(r1) |->
                         apply_rule_r3_never_split_steps(r1[n], prof.step_patterns)])
        r4 == apply_rule_r4_safety_attachment(r3, prof)
    IN  apply_rule_r5_table_integrity(r4)

\* Phase 2: R2, R6, R7, R8
SizePhase(text_chunks, prof) ==
    LET r2 == apply_rule_r2_size_targets(text_chunks)
        r6 == apply_rule_r6_merge_small(r2)
        r7 == apply_rule_r7_crossref_merge(r6, prof.cross_reference_patterns)
    IN  IF HasPattern(prof.figure_reference_pattern)
        THEN apply_rule_r8_figure_continuity(r7, prof.figure_reference_pattern)
        ELSE r7

\* The rules in the order R1, R2, R3, R4, R5, R6, R7, R8: the size split first
SizeBeforeIntegrity(text, prof) ==
    LET r2 == apply_rule_r2_size_targets(apply_rule_r1_primary_unit(text))
        r3 == Concat([n \in 1..Len(r2) |->
                         apply_rule_r3_never_split_steps(r2[n], prof.step_patterns)])
        r5 == apply_rule_r5_table_integrity(apply_rule_r4_safety_attachment(r3, prof))
        r7 == apply_rule_r7_crossref_merge(apply_rule_r6_merge_small(r5),
                                           prof.cross_reference_patterns)
    IN  IF HasPattern(prof.figure_reference_pattern)
        THEN apply_rule_r8_figure_continuity(r7, prof.figure_reference_pattern)
        ELSE r7

EntryFragments(text, prof) == SizePhase(SemanticPhase(text, prof), prof)

\* The Chunk objects built for one entry from its final fragments.
EntryChunks(entry, text, text_chunks, mf, prof) ==
    [chunk_idx \in 1..Len(text_chunks) |->
        LET chunk_id == IF Len(text_chunks) > 1
                        THEN Append(entry.chunk_id, Str("part", chunk_idx))
                        ELSE entry.chunk_id
            level1_id == IF Len(entry.chunk_id) >= 2 THEN entry.chunk_id[2] ELSE EmptyStr
            metadata == [manual_id |-> mf.manual_id,
                         level1_id |-> level1_id,
                         procedure_name |-> entry.title,
                         hierarchical_header |->
                             compose_hierarchical_header(prof, entry.hierarchy_path),
                         hierarchy_path |-> entry.hierarchy_path,
                         content_type |-> entry.content_type,
                         page_range |-> entry.page_range,
                         vehicle_models |->
                             tag_vehicle_applicability(text, prof).vehicle_models,
                         engine_applicability |->
                             tag_vehicle_applicability(text, prof).engine_applicability,
                         drivetrain_applicability |->
                             tag_vehicle_applicability(text, prof).drivetrain_applicability,
                         has_safety_callouts |-> entry.has_safety_callouts,
                         figure_references |-> entry.figure_references,
                         cross_references |-> entry.cross_references]
        IN  Chunk(chunk_id, mf.manual_id, text_chunks[chunk_idx],
                  enrich_chunk_metadata(text_chunks[chunk_idx], metadata, prof))]

\* The loop left at the first entry that starts at or after the last line
AssembledUntilOutOfRange(pgs, mf, prof) ==
    LET lines == AllLines(pgs)
        out   == {e \in 1..Len(mf.entries) : mf.entries[e].line_range.start >= Len(lines)}
        last  == IF out = {} THEN Len(mf.entries) ELSE SetMin(out) - 1
    IN  Concat([entry_idx \in 1..last |->
            IF EntrySkipped(lines, mf, prof, entry_idx) THEN <<>>
            ELSE EntryChunks(mf.entries[entry_idx],
                             EntryText(lines, mf.entries, entry_idx),
                             EntryFragments(EntryText(lines, mf.entries, entry_idx), prof),
                             mf, prof)])

\* result_chunks before the cross-entry merge
AssembledBeforeMerge(pgs, mf, prof) ==
    LET lines == AllLines(pgs)
    IN  Concat([entry_idx \in 1..Len(mf.entries) |->
            IF EntrySkipped(lines, mf, prof, entry_idx) THEN <<>>
            ELSE EntryChunks(mf.entries[entry_idx],
                             EntryText(lines, mf.entries, entry_idx),
                             EntryFragments(EntryText(lines, mf.entries, entry_idx), prof),
                             mf, prof)])

assemble_chunks(pgs, mf, prof) ==
    merge_small_across_entries(AssembledBeforeMerge(pgs, mf, prof),
                               MinTokensMerge, MaxTokensMerge)

----------------------------------------------------------------------------
(* chunk_assembly.py: save_chunks, load_chunks.  The file is the list of    *)
(* its characters; a character is the pair [t, v]: a brace, a quote, an     *)
(* object key with its colon and comma (v the key), a scalar or container   *)
(* value as json.dumps writes it (v the value), the characters of one line  *)
(* of a string (v the line), the two-character escape \n, a raw newline.    *)

Tok(t, v) == [t |-> t, v |-> v]

\* The text written as it is, its newlines raw between the quotes
RawText(text) ==
    <<Tok("quote", 0)>>
    \o Concat([i \in 1..Len(text) |->
                  (IF i > 1 THEN <<Tok("newline", 0)>> ELSE <<>>)
                  \o (IF IsBlank(text[i]) THEN <<>> ELSE <<Tok("chars", text[i])>>)])
    \o <<Tok("quote", 0)>>

\* json.dumps of a str that has newlines: each newline becomes the escape \n
json_dumps_text(text) ==
    <<Tok("quote", 0)>>
    \o Concat([i \in 1..Len(text) |->
                  (IF i > 1 THEN <<Tok("\\n", 0)>> ELSE <<>>)
                  \o (IF IsBlank(text[i]) THEN <<>> ELSE <<Tok("chars", text[i])>>)])
    \o <<Tok("quote", 0)>>

\* f.write(json.dumps(record, ensure_ascii=False) + "\n") for every chunk
save_chunks(chunks) ==
    Concat([n \in 1..Len(chunks) |->
               <<Tok("{", 0),
                 Tok("key", "chunk_id"), Tok("value", chunks[n].chunk_id),
                 Tok("key", "manual_id"), Tok("value", chunks[n].manual_id),
                 Tok("key", "text")>>
               \o json_dumps_text(chunks[n].text)
               \o <<Tok("key", "metadata"), Tok("value", chunks[n].metadata),
                    Tok("}", 0), Tok("newline", 0)>>])

\* json.loads(line) and the Chunk built from the record; ok is FALSE where
\* json.loads raises JSONDecodeError or a key of the record is missing
json_loads(line) ==
    LET n      == Len(line)
        quotes == {i \in 1..n : line[i].t = "quote"}
        close  == SetMax(quotes)
        ok     == /\ n >= 11
                  /\ line[1].t = "{"
                  /\ line[2].t = "key" /\ line[2].v = "chunk_id" /\ line[3].t = "value"
                  /\ line[4].t = "key" /\ line[4].v = "manual_id" /\ line[5].t = "value"
                  /\ line[6].t = "key" /\ line[6].v = "text"
                  /\ quotes = {7, close} /\ close > 7 /\ n = close + 3
                  /\ \A i \in 8..(close - 1) : line[i].t \in {"chars", "\\n"}
                  /\ \A i \in 8..(close - 2) : line[i].t = "chars" => line[i + 1].t = "\\n"
                  /\ line[close + 1].t = "key" /\ line[close + 1].v = "metadata"
                  /\ line[close + 2].t = "value"
                  /\ line[n].t = "}"
        escapes == SortedLevels({i \in 8..(close - 1) : line[i].t = "\\n"})
        \* the characters between escape k - 1 and escape k of the string
        piece(k) == LET from == IF k = 1 THEN 8 ELSE escapes[k - 1] + 1
                        to   == IF k > Len(escapes) THEN close - 1 ELSE escapes[k] - 1
                    IN  IF from > to THEN BL ELSE line[from].v
    IN  IF ~ok THEN [ok |-> FALSE, chunk |-> <<>>]
        ELSE [ok |-> TRUE,
              chunk |-> Chunk(line[3].v, line[5].v,
                              [k \in 1..(Len(escapes) + 1) |-> piece(k)],
                              line[close + 2].v)]

\* The chunks of the lines of the file; error when json.loads raises on a line
load_chunks(file) ==
    LET ends     == SortedLevels({i \in 1..Len(file) : file[i].t = "newline"})
        last_end == IF ends = <<>> THEN 0 ELSE ends[Len(ends)]
        count    == IF last_end < Len(file) THEN Len(ends) + 1 ELSE Len(ends)
        \* line k of "for line in f", after line.strip()
        line(k)  == LET from == IF k = 1 THEN 1 ELSE ends[k - 1] + 1
                        to   == IF k > Len(ends) THEN Len(file) ELSE ends[k] - 1
                    IN  Slice(file, from, to)
        kept     == SelectSeq(Idx(count), LAMBDA k : line(k) # <<>>)
    IN  IF \E k \in 1..Len(kept) : ~json_loads(line(kept[k])).ok
        THEN [error |-> TRUE, chunks |-> <<>>]
        ELSE [error |-> FALSE,
              chunks |-> [k \in 1..Len(kept) |-> json_loads(line(kept[k])).chunk]]

NotLoaded == [error |-> FALSE, chunks |-> <<>>]

----------------------------------------------------------------------------
(* profile.py: validate_profile                                             *)

\* levels == expected, with expected = list(range(1, len(levels) + 1))
LevelsSequential(hierarchy) ==
    \A n \in 1..Len(hierarchy) : hierarchy[n].level = n

\* The errors found, each named by the check that reports it.
validate_profile(prof) ==
    LET bad(pat) == HasPattern(pat) /\ ~PatCompiles(pat)
        err(cond, name) == IF cond THEN {name} ELSE {}
    IN  err(prof.schema_version # "1.0", "schema_version")
        \cup err(prof.manual_id = EmptyStr, "manual_id")
        \cup err(prof.manual_title = EmptyStr, "manual_title")
        \cup err(prof.source_url = "", "source_url")
        \cup err(prof.source_format \notin {"pdf-ocr", "pdf-native", "html", "epub"},
                 "source_format")
        \cup err(prof.vehicles = <<>>, "vehicles")
        \cup err(prof.hierarchy = <<>>, "hierarchy")
        \cup err(prof.hierarchy # <<>> /\ ~LevelsSequential(prof.hierarchy), "levels")
        \cup err(\E n \in 1..Len(prof.hierarchy) :
                     bad(prof.hierarchy[n].id_pattern) \/ bad(prof.hierarchy[n].title_pattern),
                 "hierarchy pattern")
        \cup err(\E n \in 1..Len(prof.step_patterns) : bad(prof.step_patterns[n]),
                 "step_patterns")
        \cup err(\E n \in 1..Len(prof.safety_callouts) : bad(prof.safety_callouts[n].pattern),
                 "safety callout pattern")
        \cup err(bad(prof.figure_reference_pattern), "figure_reference pattern")
        \cup err(bad(prof.page_number_pattern), "page_number pattern")
        \cup err(\E n \in 1..Len(prof.cross_reference_patterns) :
                     bad(prof.cross_reference_patterns[n]),
                 "cross_reference_patterns")
        \cup err(\E n \in 1..Len(prof.ocr_cleanup.known_substitutions) :
                     ~({"from", "to"} \subseteq DOMAIN prof.ocr_cleanup.known_substitutions[n]),
                 "known_substitutions")
        \cup err(\E n \in 1..Len(prof.safety_callouts) :
                     prof.safety_callouts[n].level \notin {"warning", "caution", "note"},
                 "safety callout level")
        \cup err(\E n \in 1..Len(prof.safety_callouts) :
                     prof.safety_callouts[n].style \notin {"block", "inline"},
                 "safety callout style")

----------------------------------------------------------------------------
(* ocr_cleanup.py: clean_page, for a profile without known substitutions.   *)
(* The replacements inside a line (quotes, ligatures, runs of spaces) do    *)
(* not change what a pattern sees in the line nor its number of words.      *)

\* re.compile(p) raises re.error for some header/footer pattern
CleanRaises(prof) ==
    \E n \in 1..Len(prof.ocr_cleanup.header_footer_patterns) :
        ~PatCompiles(prof.ocr_cleanup.header_footer_patterns[n])

\* the lines no header/footer pattern is found in
strip_headers_footers(text, patterns) ==
    JoinLines(SelectSeq(text, LAMBDA l :
        ~\E n \in 1..Len(patterns) : PatSearch(patterns[n], l)))

\* re.sub(r"\n{3,}", "\n\n", text): a run of three or more newlines, which is a
\* run of blank lines with the newlines around it, is cut down to two newlines
normalize_unicode(text) ==
    LET n == Len(text)
        first(i) == SetMin({a \in 1..i : \A q \in a..i : IsBlank(text[q])})
        last(i)  == SetMax({b \in i..n : \A q \in i..b : IsBlank(text[q])})
        sides(i) == (IF first(i) > 1 THEN 1 ELSE 0) + (IF last(i) < n THEN 1 ELSE 0)
        newlines(i) == (last(i) - first(i)) + sides(i)
        keep(i) == \/ ~IsBlank(text[i])
                   \/ newlines(i) < 3
                   \/ i - first(i) + 1 <= 3 - sides(i)
        kept == SelectSeq(Idx(n), keep)
    IN  [k \in 1..Len(kept) |-> text[kept[k]]]

clean_page(page_text, prof) ==
    normalize_unicode(strip_headers_footers(page_text,
                                            prof.ocr_cleanup.header_footer_patterns))

----------------------------------------------------------------------------
(* Inputs: profiles                                                         *)

HierarchyLevel(level, name, id_pattern, title_pattern) ==
    [level |-> level, name |-> name, id_pattern |-> id_pattern,
     title_pattern |-> title_pattern, known_ids |-> {}, require_known_id |-> FALSE,
     require_blank_before |-> FALSE, min_gap_lines |-> 0, min_content_words |-> 0]

\* group / section / procedure: a numbered level-1 heading, and all-caps
\* headings that both the level-2 and the level-3 pattern match
GroupLevel     == HierarchyLevel(1, "group", "l1", "l1")

SectionLevel   == HierarchyLevel(2, "section", "none", "allcaps")

ProcedureLevel == HierarchyLevel(3, "procedure", "none", "allcaps")

\* one vehicle: a model, an engine with a name and a code, a drive type
Vehicle ==
    [model |-> Str("vehicle", 1), drive_type |-> <<Str("drive", 1)>>,
     engines |-> <<[name |-> Str("engine", 1), code |-> Str("engine", 2),
                    aliases |-> <<>>]>>]

ManualProfile(hierarchy) ==
    [schema_version |-> "1.0",
     manual_id |-> Str("manual", 1), manual_title |-> Str("manual_title", 1),
     source_url |-> "url", source_format |-> "pdf-ocr", vehicles |-> <<Vehicle>>,
     hierarchy |-> hierarchy,
     page_number_pattern |-> "none",
     step_patterns |-> <<"num", "alpha">>,
     safety_callouts |-> <<[level |-> "warning", pattern |-> "warning", style |-> "block"],
                           [level |-> "caution", pattern |-> "caution", style |-> "block"]>>,
     figure_reference_pattern |-> "fig",
     cross_reference_patterns |-> <<"xref">>,
     ocr_cleanup |-> [known_substitutions |-> <<>>, header_footer_patterns |-> <<>>],
     skip_sections |-> <<>>]

DefaultProfile == ManualProfile(<<GroupLevel, SectionLevel, ProcedureLevel>>)

\* level 3 only after a blank line
ScenarioProfile ==
    ManualProfile(<<GroupLevel, SectionLevel,
                    [ProcedureLevel EXCEPT !.require_blank_before = TRUE]>>)

Profiles == {DefaultProfile, ScenarioProfile}

\* skip_sections: ["8"]
SkipProfile == [DefaultProfile EXCEPT !.skip_sections = <<Str("id", 8)>>]

\* profiles with one defect each: levels 1 and 3, levels 2 and 1, a step
\* pattern and a header/footer pattern that do not compile, no manual_id, a
\* level-1 id pattern without a group
DefectProfiles ==
    {[DefaultProfile EXCEPT !.hierarchy = <<GroupLevel, ProcedureLevel>>],
     [DefaultProfile EXCEPT !.hierarchy = <<SectionLevel, GroupLevel>>],
     [DefaultProfile EXCEPT !.step_patterns = <<"num", "unclosed">>],
     [DefaultProfile EXCEPT !.manual_id = EmptyStr],
     [DefaultProfile EXCEPT !.ocr_cleanup.header_footer_patterns = <<"unclosed">>],
     [DefaultProfile EXCEPT !.hierarchy[1].id_pattern = "l1_nogroup"]}

MinGapBound == 2

MinWordsBound == 5

\* one profile per filter pass, and one with all of them
FilterProfiles ==
    {DefaultProfile,
     ManualProfile(<<[GroupLevel EXCEPT !.require_known_id = TRUE,
                                        !.known_ids = {Str("id", 1)}],
                     SectionLevel,
                     [ProcedureLevel EXCEPT !.require_known_id = TRUE,
                                            !.known_ids = {Str("id", 1)}]>>),
     ManualProfile(<<[GroupLevel EXCEPT !.require_known_id = TRUE],
                     [SectionLevel EXCEPT !.require_blank_before = TRUE],
                     ProcedureLevel>>),
     ManualProfile(<<GroupLevel, [SectionLevel EXCEPT !.min_gap_lines = MinGapBound],
                     ProcedureLevel>>),
     ManualProfile(<<[GroupLevel EXCEPT !.min_content_words = MinWordsBound],
                     SectionLevel, ProcedureLevel>>),
     ManualProfile(<<[GroupLevel EXCEPT !.min_gap_lines = MinGapBound,
                                        !.require_known_id = TRUE,
                                        !.known_ids = {Str("id", 1)}],
                     SectionLevel, ProcedureLevel>>),
     ManualProfile(<<[GroupLevel EXCEPT !.min_gap_lines = MinGapBound],
                     [SectionLevel EXCEPT !.min_content_words = MinWordsBound],
                     [ProcedureLevel EXCEPT !.require_blank_before = TRUE,
                                            !.min_content_words = MinWordsBound]>>)}

----------------------------------------------------------------------------
(* Inputs: documents                                                        *)

SeqsUpTo(S, n) == UNION {[1..m -> S] : m \in 0..n}

\* every non-blank line of a document gets its position as its identity
Number(doc) ==
    [p \in 1..Len(doc) |-> IF IsBlank(doc[p]) THEN BL ELSE [doc[p] EXCEPT !.id = p]]

MaxBodyLines == 4

MaxSectionLines == 1

BodyLines ==
    {BL, Ln("text", 50, 0, 0), Ln("callout", 150, 1, 0),
     Ln("step", 1000, 1, 0), Ln("step", 1000, 2, 0), Ln("table", 1100, 0, 0),
     Ln("fig", 5, 1, 0), Ln("xref", 5, 1, 0)}

GroupHeading(v) == Ln("head1", 3, v, 0)

CapsHeading(v) == Ln("caps", 2, v, 0)

SecondHeadings == {GroupHeading(7), GroupHeading(8), CapsHeading(1)}

\* "7 Cooling System", "", "SERVICE PROCEDURES", "", "RADIATOR DRAINING", "",
\* "WARNING: ...", "", "(1) Step one.", "(2) Step two."
ScenarioPage ==
    Number(<<GroupHeading(7), BL, CapsHeading(1), BL, CapsHeading(2), BL,
             Ln("callout", 8, 1, 0), BL, Ln("step", 3, 1, 0), Ln("step", 3, 2, 0)>>)

Documents ==
    {Number(<<GroupHeading(7)>> \o b) : b \in SeqsUpTo(BodyLines, MaxBodyLines)}
    \cup {Number(<<GroupHeading(7)>> \o bh[1] \o <<bh[2]>> \o bh[3]) :
             bh \in SeqsUpTo(BodyLines, MaxSectionLines) \X SecondHeadings
                    \X SeqsUpTo(BodyLines, MaxSectionLines)}
    \cup {ScenarioPage}

\* documents with a group 8 or 80 in the middle, for the profile that skips "8"
SkipBodyLines == {BL, Ln("text", 50, 0, 0), Ln("step", 1000, 1, 0)}

SkipDocuments ==
    {Number(<<GroupHeading(7)>> \o d[1] \o <<GroupHeading(d[2])>> \o d[3]
            \o <<d[4]>> \o d[5]) :
        d \in SeqsUpTo(SkipBodyLines, MaxSectionLines) \X {8, 80}
              \X SeqsUpTo(SkipBodyLines, MaxSectionLines)
              \X {CapsHeading(1), GroupHeading(9)}
              \X SeqsUpTo(SkipBodyLines, MaxSectionLines)}

\* paragraphs that name the vehicle model, the engine by its code, the drive type
VehicleLines ==
    {BL, Ln("vehicle", 1000, 1, 0), Ln("engine", 1000, 2, 0), Ln("drive", 1000, 1, 0)}

VehicleDocuments ==
    {Number(<<GroupHeading(7)>> \o b) : b \in SeqsUpTo(VehicleLines, MaxSectionLines + 2)}

\* a paragraph that may pass the ceiling between two paragraphs below it
OversizedDocuments ==
    {Number(<<GroupHeading(7), d[1], BL, d[2], BL, d[3]>>) :
        d \in {Ln("text", 900, 0, 0), Ln("step", 1000, 1, 0)}
              \X {Ln("text", 1100, 0, 0), Ln("text", 2100, 0, 0), Ln("text", 4100, 0, 0)}
              \X {Ln("text", 900, 0, 0), Ln("step", 1000, 1, 0)}}

\* short documents for the profiles with a defect, one without any heading
DefectDocuments ==
    {Number(<<h>> \o b) :
        h \in {GroupHeading(7), Ln("text", 50, 0, 0)},
        b \in SeqsUpTo(SkipBodyLines, MaxSectionLines)}

MaxParseLines == 4

ParseLines ==
    {BL, Ln("text", 4, 0, 0), GroupHeading(1), GroupHeading(2),
     CapsHeading(1), CapsHeading(2)}

PageBreak == 2

\* a document as one page, or as two pages broken after line PageBreak
ParsePages ==
    LET docs == {Number(d) : d \in SeqsUpTo(ParseLines, MaxParseLines) \ {<<>>}}
    IN  {<<d>> : d \in docs}
        \cup {<<SubSeq(d, 1, PageBreak), SubSeq(d, PageBreak + 1, Len(d))>> :
                 d \in {x \in docs : Len(x) > PageBreak}}

----------------------------------------------------------------------------
(* The pipeline of cmd_process: detect, filter, manifest, assemble          *)

NoManifest == [manual_id |-> EmptyStr, entries |-> <<>>]

\* args.command is the subcommand, args.pdf stands for the page texts that
\* extract_pages reads from the file args.pdf names
Namespace(command, pdf) == [command |-> command, pdf |-> pdf]

Init ==
    /\ pc = "load"
    /\ \/ /\ args \in {Namespace("process", <<d>>) : d \in Documents}
          /\ profile \in Profiles
       \/ /\ args \in {Namespace("process", <<d>>) : d \in SkipDocuments}
          /\ profile = SkipProfile
       \/ /\ args \in {Namespace("process", <<d>>) :
                          d \in VehicleDocuments \cup OversizedDocuments}
          /\ profile = DefaultProfile
       \/ /\ args \in {Namespace(c, <<d>>) :
                          c \in {"process", "validate"}, d \in DefectDocuments}
          /\ profile \in DefectProfiles \cup {DefaultProfile}
    /\ pages = <<>>
    /\ boundaries = <<>>
    /\ manifest = NoManifest
    /\ result_chunks = <<>>
    /\ ret = <<>>
    /\ output_file = <<>>
    /\ loaded = NotLoaded

\* step 1 of cmd_process and of cmd_validate: the profile is validated
ValidateProfile ==
    /\ pc = "load"
    /\ IF validate_profile(profile) # {}
       THEN pc' = "exit" /\ ret' = 1
       ELSE pc' = "validated" /\ UNCHANGED ret
    /\ UNCHANGED <<pages, profile, boundaries, manifest, result_chunks, args,
                   output_file, loaded>>

\* steps 2 and 3: the pages are extracted and cleaned; re.error ends the command
CleanPages ==
    /\ pc = "validated"
    /\ IF args.pdf # <<>> /\ CleanRaises(profile)
       THEN pc' = "raised" /\ UNCHANGED pages
       ELSE /\ pc' = "start"
            /\ pages' = [p \in 1..Len(args.pdf) |-> clean_page(args.pdf[p], profile)]
    /\ UNCHANGED <<profile, boundaries, manifest, result_chunks, args, ret,
                   output_file, loaded>>

DetectBoundaries ==
    /\ pc = "start"
    /\ IF DetectRaises(pages, profile)
       THEN pc' = "raised" /\ UNCHANGED boundaries
       ELSE pc' = "detected" /\ boundaries' = detect_boundaries(pages, profile)
    /\ UNCHANGED <<pages, profile, manifest, result_chunks, args, ret, output_file, loaded>>

FilterBoundaries ==
    /\ pc = "detected"
    /\ boundaries' = filter_boundaries(boundaries, profile, pages)
    /\ pc' = "filtered"
    /\ UNCHANGED <<pages, profile, manifest, result_chunks, args, ret, output_file, loaded>>

BuildManifest ==
    /\ pc = "filtered"
    /\ manifest' = build_manifest(boundaries, profile)
    /\ pc' = "manifest"
    /\ UNCHANGED <<pages, profile, boundaries, result_chunks, args, ret, output_file, loaded>>

AssembleChunks ==
    /\ pc = "manifest"
    /\ result_chunks' = assemble_chunks(pages, manifest, profile)
    /\ pc' = "done"
    /\ UNCHANGED <<pages, profile, boundaries, manifest, args, ret, output_file, loaded>>

\* step 5b: save_chunks(chunks, output_path)
SaveChunks ==
    /\ pc = "done" /\ args.command = "process"
    /\ output_file' = save_chunks(result_chunks)
    /\ pc' = "saved"
    /\ UNCHANGED <<pages, profile, boundaries, manifest, result_chunks, args, ret, loaded>>

\* cmd_validate_chunks: chunks = load_chunks(chunks_path)
LoadChunks ==
    /\ pc = "saved"
    /\ loaded' = load_chunks(output_file)
    /\ pc' = "loaded"
    /\ UNCHANGED <<pages, profile, boundaries, manifest, result_chunks, args, ret,
                   output_file>>

Next ==
    \/ ValidateProfile \/ CleanPages
    \/ DetectBoundaries \/ FilterBoundaries \/ BuildManifest \/ AssembleChunks
    \/ SaveChunks \/ LoadChunks

Spec == Init /\ [][Next]_vars

\* The structural parser alone, over documents with many headings and over
\* the filter settings
InitParse ==
    /\ pc = "start"
    /\ pages \in ParsePages
    /\ profile \in FilterProfiles
    /\ boundaries = <<>>
    /\ manifest = NoManifest
    /\ result_chunks = <<>>
    /\ args = <<>>
    /\ ret = <<>>
    /\ output_file = <<>>
    /\ loaded = NotLoaded

NextParse == DetectBoundaries \/ FilterBoundaries \/ BuildManifest

SpecParse == InitParse /\ [][NextParse]_vars

----------------------------------------------------------------------------
(* Following the lines of the document into the final chunks                *)

Assembled(entry_idx) == ~EntrySkipped(AllLines(pages), manifest, profile, entry_idx)

TextOf(entry_idx) == EntryText(AllLines(pages), manifest.entries, entry_idx)

\* the text holds the document line l (its first piece, if the line was cut)
HoldsLine(text, l) ==
    \E i \in 1..Len(text) : text[i].id = l.id /\ text[i].k = l.k

\* some final chunk holds both lines, and no final chunk holds only one of them
Together(l1, l2) ==
    /\ \E n \in 1..Len(result_chunks) :
           HoldsLine(result_chunks[n].text, l1) /\ HoldsLine(result_chunks[n].text, l2)
    /\ \A n \in 1..Len(result_chunks) :
           HoldsLine(result_chunks[n].text, l1) <=> HoldsLine(result_chunks[n].text, l2)

\* line m is a step whose numbering is back at its start after a gap
StepReset(text, m) ==
    /\ IsStepLine(text[m], profile.step_patterns)
    /\ text[m].v = 1
    /\ m > 1
    /\ ~IsStepLine(text[m - 1], profile.step_patterns)
    /\ \E q \in 1..(m - 1) : IsStepLine(text[q], profile.step_patterns)

\* lines i < j are two steps of one run
SameRun(text, i, j) ==
    /\ i < j
    /\ IsStepLine(text[i], profile.step_patterns)
    /\ IsStepLine(text[j], profile.step_patterns)
    /\ \A m \in (i + 1)..j : ~StepReset(text, m)

\* the fragment that holds line l when R2 runs is within the ceiling
FragmentUnderCeiling(text, l) ==
    \E f \in 1..Len(SemanticPhase(text, profile)) :
        /\ HoldsLine(SemanticPhase(text, profile)[f], l)
        /\ count_tokens(SemanticPhase(text, profile)[f]) <= MaxTokensR2

NextContent(text, i) ==
    LET after == {q \in (i + 1)..Len(text) : ~IsBlank(text[q])}
    IN  IF after = {} THEN 0 ELSE SetMin(after)

\* callout block c of the text is followed by procedure content it governs
Governs(text, c) ==
    /\ NextContent(text, c.end_line) # 0
    /\ ~IsCalloutStart(text[NextContent(text, c.end_line)], profile.safety_callouts)

\* the fragments of an entry text after R1, R3 and R4
AfterR4(text) ==
    LET r1 == apply_rule_r1_primary_unit(text)
    IN  apply_rule_r4_safety_attachment(
            Concat([n \in 1..Len(r1) |->
                       apply_rule_r3_never_split_steps(r1[n], profile.step_patterns)]),
            profile)

\* C2: a safety callout followed by the procedure content it governs is never
\* left without it: after R4 no fragment but the last is callout-only, and the
\* callout line and the first line of the governed content are in the same
\* final chunk.
C2_CalloutWithGoverned ==
    pc = "done" =>
        \A e \in 1..Len(manifest.entries) : Assembled(e) =>
            /\ \A f \in 1..(Len(AfterR4(TextOf(e))) - 1) :
                   ~SafetyOnly(AfterR4(TextOf(e))[f], profile)
            /\ \A n \in 1..Len(detect_safety_callouts(TextOf(e), profile)) :
                   LET c == detect_safety_callouts(TextOf(e), profile)[n]
                   IN  Governs(TextOf(e), c) =>
                           Together(TextOf(e)[c.start_line],
                                    TextOf(e)[NextContent(TextOf(e), c.end_line)])

\* C3: every table region detect_tables finds in an assembled entry is whole in
\* one final chunk, whatever its size: any two dot-leader lines of the region are
\* in the same final chunk.
C3_TableNeverSplit ==
    pc = "done" =>
        \A e \in 1..Len(manifest.entries) : Assembled(e) =>
            \A t \in 1..Len(detect_tables(TextOf(e))) :
                \A i, j \in detect_tables(TextOf(e))[t][1]..detect_tables(TextOf(e))[t][2] :
                    (i < j /\ DotLeader(TextOf(e)[i]) /\ DotLeader(TextOf(e)[j])) =>
                        Together(TextOf(e)[i], TextOf(e)[j])

\* C8: the three scanned metadata fields of every final chunk are what scanning
\* the chunk's final text yields.
C8_MetadataFromFinalText ==
    pc = "done" =>
        \A n \in 1..Len(result_chunks) :
            LET c    == result_chunks[n]
                scan == enrich_chunk_metadata(c.text, c.metadata, profile)
            IN  /\ c.metadata.has_safety_callouts = scan.has_safety_callouts
                /\ c.metadata.figure_references = scan.figure_references
                /\ c.metadata.cross_references = scan.cross_references

FallsUnderSkip(entry) ==
    /\ Len(entry.chunk_id) >= 2
    /\ entry.chunk_id[1] = manifest.manual_id
    /\ \E n \in 1..Len(profile.skip_sections) :
           StrStartsWith(entry.chunk_id[2], profile.skip_sections[n])

\* the lines of the document in the span of entry e, as 1-based positions
SpanOf(e) ==
    LET lines == AllLines(pages)
        stop  == IF e + 1 <= Len(manifest.entries)
                 THEN manifest.entries[e + 1].line_range.start ELSE Len(lines)
    IN  {q \in (manifest.entries[e].line_range.start + 1)..stop :
            q <= Len(lines) /\ ~IsBlank(lines[q])}

\* the chunk is the entry's own or one of its parts
ChunkOfEntry(chunk, entry) ==
    \/ chunk.chunk_id = entry.chunk_id
    \/ /\ Len(chunk.chunk_id) = Len(entry.chunk_id) + 1
       /\ SubSeq(chunk.chunk_id, 1, Len(entry.chunk_id)) = entry.chunk_id
       /\ chunk.chunk_id[Len(chunk.chunk_id)][1] = "part"

\* C11: for every manifest entry under a skip namespace, no returned chunk is
\* the entry's (or a part of it) and no line of the entry's span is in the text
\* of any returned chunk, the cross-entry merge included.
C11_SkippedNeverAssembled ==
    pc = "done" =>
        \A e \in 1..Len(manifest.entries) : FallsUnderSkip(manifest.entries[e]) =>
            \A n \in 1..Len(result_chunks) :
                /\ ~ChunkOfEntry(result_chunks[n], manifest.entries[e])
                /\ \A q \in SpanOf(e) : \A i \in 1..Len(result_chunks[n].text) :
                       result_chunks[n].text[i].id # AllLines(pages)[q].id

\* a skipped group with body text and a skipped entry below it, between two
\* chunks of entries that are assembled
C11_Witness ==
    /\ pc = "done"
    /\ result_chunks # <<>>
    /\ \E e \in 1..Len(manifest.entries) :
           /\ FallsUnderSkip(manifest.entries[e])
           /\ Cardinality(SpanOf(e)) >= 2
           /\ e + 1 <= Len(manifest.entries)
           /\ FallsUnderSkip(manifest.entries[e + 1])
           /\ manifest.entries[e + 1].level = 2

\* C12: every chunk assemble_chunks returns has a text with a non-blank line and
\* a metadata map with the keys manual_id, level1_id and content_type.
C12_ChunkTextAndKeys ==
    pc = "done" =>
        \A n \in 1..Len(result_chunks) :
            /\ \E i \in 1..Len(result_chunks[n].text) : ~IsBlank(result_chunks[n].text[i])
            /\ {"manual_id", "level1_id", "content_type"}
                   \subseteq DOMAIN result_chunks[n].metadata

\* an entry cut into parts by the rules and a chunk merged across entries
C12_Witness ==
    /\ pc = "done"
    /\ \E n \in 1..Len(result_chunks) :
           result_chunks[n].chunk_id[Len(result_chunks[n].chunk_id)][1] = "part"
    /\ Len(result_chunks) < Len(AssembledBeforeMerge(pages, manifest, profile))
    /\ \A n \in 1..Len(result_chunks) :
           result_chunks[n].metadata.manual_id = profile.manual_id

C14_ProfileErrorsBeforeProcessing ==
    /\ pc = "exit" =>
          /\ ret = 1
          /\ pages = <<>> /\ boundaries = <<>> /\ manifest = NoManifest
          /\ result_chunks = <<>>
    /\ pc \notin {"load", "exit"} => validate_profile(profile) = {}
    /\ pc # "raised"

\* The part of C14 about the errors validate_profile does report.
C14_ReportedErrorsExitFirst ==
    /\ pc = "exit" =>
          /\ ret = 1
          /\ pages = <<>> /\ boundaries = <<>> /\ manifest = NoManifest
          /\ result_chunks = <<>>
    /\ pc \notin {"load", "exit"} => validate_profile(profile) = {}

C14_ExitWitness ==
    /\ pc = "exit" /\ "levels" \in validate_profile(profile)

----------------------------------------------------------------------------
(* Direct calls of the chunk rules and of the cross-entry merge             *)

MaxFragmentLines == 3

R2Lines ==
    {BL, Ln("text", 900, 0, 0), Ln("text", 1100, 0, 0), Ln("text", 2100, 0, 0),
     Ln("text", 4100, 0, 0), Ln("step", 1000, 1, 0)}

R2Fragments(n) == {Number(f) : f \in SeqsUpTo(R2Lines, n) \ {<<>>}}

R2Inputs ==
    {<<>>} \cup {<<f>> : f \in R2Fragments(MaxFragmentLines)}
           \cup {<<fg[1], fg[2]>> : fg \in R2Fragments(1) \X R2Fragments(1)}

MaxTextLines == 5

R3Lines ==
    {BL, Ln("text", 5, 0, 0), Ln("step", 3, 1, 0), Ln("step", 3, 2, 0), Ln("astep", 3, 1, 0)}

R3Inputs == {Number(t) : t \in SeqsUpTo(R3Lines, MaxTextLines) \ {<<>>}}

ChainLength == 5

ChunkSizes == {40, 90, 150, 199}

Ceilings == {MaxTokensMerge, 400, 300}

\* a chain of chunks of one level-1 group, one line of text each
Chain(sizes) ==
    [n \in 1..Len(sizes) |->
        Chunk(<<Str("manual", 1), Str("id", 7), Str("title", n)>>, Str("manual", 1),
              <<Ln("text", sizes[n], 0, n)>>,
              [manual_id |-> Str("manual", 1), level1_id |-> Str("id", 7)])]

\* the manifest of a document with the start of entry j moved to or past the
\* number of lines of the document; no entry is changed when there is no entry j
OutOfRangeEntry(pgs, j, k) ==
    LET mf == build_manifest(filter_boundaries(detect_boundaries(pgs, DefaultProfile),
                                               DefaultProfile, pgs), DefaultProfile)
    IN  IF j \in 1..Len(mf.entries)
        THEN [mf EXCEPT !.entries[j].line_range.start = Len(AllLines(pgs)) + k]
        ELSE mf

AssembleArgs ==
    {[fn |-> "assemble", pages |-> <<d>>, manifest |-> OutOfRangeEntry(<<d>>, j, k)] :
        d \in SkipDocuments, j \in 0..3, k \in {0, 1}}

\* a chain of chunks of the level-1 groups given, one line of text each
MixedChain(sizes, groups) ==
    [n \in 1..Len(sizes) |->
        Chunk(<<Str("manual", 1), Str("id", groups[n]), Str("title", n)>>, Str("manual", 1),
              <<Ln("text", sizes[n], 0, n)>>,
              [manual_id |-> Str("manual", 1), level1_id |-> Str("id", groups[n])])]

MixedArgs ==
    {[fn |-> "merge", chunks |-> MixedChain(sz, gr), min_tokens |-> MinTokensMerge,
      max_tokens |-> mx] :
        sz \in [1..ChainLength -> {90, 1000}], gr \in [1..ChainLength -> {7, 8}],
        mx \in {MaxTokensMerge, 300}}

CallArgs ==
    {[fn |-> "r2", chunks |-> c] : c \in R2Inputs}
    \cup {[fn |-> "r3", text |-> t] : t \in R3Inputs}
    \cup {[fn |-> "merge", chunks |-> Chain(sz), min_tokens |-> MinTokensMerge,
           max_tokens |-> mx] : sz \in [1..ChainLength -> ChunkSizes], mx \in Ceilings}
    \cup AssembleArgs \cup MixedArgs

InitCall ==
    /\ pc = "call"
    /\ args \in CallArgs
    /\ ret = <<>>
    /\ pages = <<>>
    /\ profile = DefaultProfile
    /\ boundaries = <<>>
    /\ manifest = NoManifest
    /\ result_chunks = <<>>
    /\ output_file = <<>>
    /\ loaded = NotLoaded

CallR2 ==
    /\ pc = "call" /\ args.fn = "r2"
    /\ ret' = apply_rule_r2_size_targets(args.chunks)
    /\ pc' = "ret"
    /\ UNCHANGED <<pages, profile, boundaries, manifest, result_chunks, args, output_file, loaded>>

CallR3 ==
    /\ pc = "call" /\ args.fn = "r3"
    /\ ret' = apply_rule_r3_never_split_steps(args.text, profile.step_patterns)
    /\ pc' = "ret"
    /\ UNCHANGED <<pages, profile, boundaries, manifest, result_chunks, args, output_file, loaded>>

\* ret holds the list returned and the number of passes the loop ran
CallMerge ==
    /\ pc = "call" /\ args.fn = "merge"
    /\ ret' = MergePasses(args.chunks, args.min_tokens, args.max_tokens, 0)
    /\ pc' = "ret"
    /\ UNCHANGED <<pages, profile, boundaries, manifest, result_chunks, args, output_file, loaded>>

CallAssemble ==
    /\ pc = "call" /\ args.fn = "assemble"
    /\ ret' = assemble_chunks(args.pages, args.manifest, profile)
    /\ pc' = "ret"
    /\ UNCHANGED <<pages, profile, boundaries, manifest, result_chunks, args, output_file, loaded>>

NextCall == CallR2 \/ CallR3 \/ CallMerge \/ CallAssemble

SpecCall == InitCall /\ [][NextCall]_vars

----------------------------------------------------------------------------

\* C4: every fragment apply_rule_r2_size_targets returns is estimated at no more
\* than the 2000-token maximum.
C4_R2WithinCeiling ==
    (pc = "ret" /\ args.fn = "r2") =>
        \A n \in 1..Len(ret) : count_tokens(ret[n]) <= 2000

\* a line of more than 2000 words was cut at words
C4_Witness ==
    /\ pc = "ret" /\ args.fn = "r2"
    /\ \E f \in 1..Len(args.chunks) : \E q \in 1..Len(args.chunks[f]) :
           args.chunks[f][q].w > 2000
    /\ \E n \in 1..Len(ret) : ret[n] # <<>> /\ ret[n][1].w = 2000
    /\ Len(ret) > Len(args.chunks)

\* C5: the boundaries detect_boundaries returns are in (page_number, line_number)
\* order.
C5_BoundariesOrdered ==
    pc = "detected" =>
        \A n \in 1..(Len(boundaries) - 1) :
            \/ boundaries[n].page_number < boundaries[n + 1].page_number
            \/ /\ boundaries[n].page_number = boundaries[n + 1].page_number
               /\ boundaries[n].line_number <= boundaries[n + 1].line_number

\* boundaries of different levels on two pages
C5_Witness ==
    /\ pc = "detected"
    /\ Len(boundaries) >= 3
    /\ boundaries[1].page_number < boundaries[Len(boundaries)].page_number
    /\ boundaries[1].level > boundaries[2].level

\* C6: running filter_boundaries on its own output, with the same pages and
\* profile, removes nothing.
C6_FilterIdempotent ==
    pc = "filtered" => filter_boundaries(boundaries, profile, pages) = boundaries

\* the filter removed a boundary for its word count and kept another
C6_Witness ==
    /\ pc = "filtered"
    /\ boundaries # <<>>
    /\ \E n \in 1..Len(profile.hierarchy) : profile.hierarchy[n].min_content_words > 0
    /\ Len(boundaries) < Len(detect_boundaries(pages, profile))
    /\ filter_boundaries(boundaries, profile, pages) = boundaries

\* the estimated sizes of the chunks of a list
Sizes(chunks) == [n \in 1..Len(chunks) |-> count_tokens(chunks[n].text)]

RECURSIVE Sum(_)
Sum(sizes) == IF sizes = <<>> THEN 0 ELSE Head(sizes) + Sum(Tail(sizes))

\* the smallest number of chunks a chain can be merged into without a merged
\* chunk exceeding the ceiling
RECURSIVE GroupsAfter(_, _, _)
GroupsAfter(sizes, current, max_tokens) ==
    IF sizes = <<>> THEN 1
    ELSE IF current + Head(sizes) <= max_tokens
         THEN GroupsAfter(Tail(sizes), current + Head(sizes), max_tokens)
         ELSE 1 + GroupsAfter(Tail(sizes), Head(sizes), max_tokens)

FewestChunks(sizes, max_tokens) == GroupsAfter(Tail(sizes), Head(sizes), max_tokens)

\* the call merged a chain of chunks that are each below min_tokens and share
\* one level-1 id
UndersizedChain ==
    /\ pc = "ret" /\ args.fn = "merge"
    /\ \A n \in 1..Len(args.chunks) :
           /\ count_tokens(args.chunks[n].text) < args.min_tokens
           /\ args.chunks[n].chunk_id[2] = args.chunks[1].chunk_id[2]

SingleRun(text) ==
    /\ \E i \in 1..Len(text) : IsStepLine(text[i], profile.step_patterns)
    /\ \A m \in 1..Len(text) : ~StepReset(text, m)

\* the fragments of the list that hold the line
FragmentsWith(fragments, l) ==
    {f \in 1..Len(fragments) : \E q \in 1..Len(fragments[f]) : fragments[f][q] = l}

\* how many times the line occurs in the fragments
Occurrences(fragments, l) ==
    Sum([f \in 1..Len(fragments) |->
            Cardinality({q \in 1..Len(fragments[f]) : fragments[f][q] = l})])

OutOfRange(e) == args.manifest.entries[e].line_range.start >= Len(AllLines(args.pages))

\* the positions of the non-blank lines from the start of entry e up to the
\* start of the next entry that is in range, or the end of the document
LinesOfEntry(e) ==
    LET lines   == AllLines(args.pages)
        entries == args.manifest.entries
        later   == {f \in (e + 1)..Len(entries) : ~OutOfRange(f)}
        stop    == IF later = {} THEN Len(lines)
                   ELSE entries[SetMin(later)].line_range.start
    IN  {q \in (entries[e].line_range.start + 1)..stop : ~IsBlank(lines[q])}

\* C15: assemble_chunks returns a chunk list for a manifest with an entry that
\* starts at or after the document's line count; no returned chunk is that
\* entry's, and every line of every other entry is in a returned chunk.
C15_OutOfRangeEntrySkipped ==
    (pc = "ret" /\ args.fn = "assemble") =>
        \A e \in 1..Len(args.manifest.entries) :
            IF OutOfRange(e)
            THEN \A n \in 1..Len(ret) : ~ChunkOfEntry(ret[n], args.manifest.entries[e])
            ELSE \A q \in LinesOfEntry(e) :
                     \E n \in 1..Len(ret) : HoldsLine(ret[n].text, AllLines(args.pages)[q])

\* an out-of-range entry between two entries that are assembled
C15_Witness ==
    /\ pc = "ret" /\ args.fn = "assemble"
    /\ \E e \in 2..(Len(args.manifest.entries) - 1) :
           /\ OutOfRange(e)
           /\ \E n \in 1..Len(ret) : ChunkOfEntry(ret[n], args.manifest.entries[e - 1])
           /\ \E n \in 1..Len(ret) : ChunkOfEntry(ret[n], args.manifest.entries[e + 1])

\* the numbers of the hierarchy levels with a pattern found in the line
CandidateLevels(line) ==
    {profile.hierarchy[n].level : n \in
        {m \in 1..Len(profile.hierarchy) :
            \/ HasPattern(profile.hierarchy[m].id_pattern)
               /\ PatSearch(profile.hierarchy[m].id_pattern, line)
            \/ HasPattern(profile.hierarchy[m].title_pattern)
               /\ PatSearch(profile.hierarchy[m].title_pattern, line)}}

\* the lines of the pages, in reading order, that match some level
HeadingLines ==
    SelectSeq(Concat(pages), LAMBDA l : ~IsBlank(l) /\ CandidateLevels(l) # {})

\* the level open when boundary k is met: none (0) before the first boundary,
\* then the level of the boundary before
OpenLevel(k) == IF k = 1 THEN 0 ELSE boundaries[k - 1].level

\* the shallowest candidate deeper than the open level, else the shallowest
Disambiguated(open, candidates) ==
    IF \E c \in candidates : c > open
    THEN SetMin({c \in candidates : c > open})
    ELSE SetMin(candidates)

RECURSIVE LinesBefore(_)
LinesBefore(n) == IF n = 0 THEN 0 ELSE LinesBefore(n - 1) + Len(pages[n])

\* C17: for the k-th boundary, made from the k-th matching line, line_number
\* minus the line counts of the pages before page_number is the 0-based index
\* of that line within its page, and line_number is the 0-based index of that
\* line in the list of the lines of all pages joined.
C17_GlobalLineNumber ==
    (pc = "detected" /\ Len(boundaries) = Len(HeadingLines)) =>
        \A k \in 1..Len(boundaries) :
            LET b     == boundaries[k]
                page  == pages[b.page_number + 1]
                index == b.line_number - LinesBefore(b.page_number)
            IN  /\ b.page_number + 1 \in 1..Len(pages)
                /\ index + 1 \in 1..Len(page)
                /\ page[index + 1] = HeadingLines[k]
                /\ b.line_number + 1 \in 1..Len(AllLines(pages))
                /\ AllLines(pages)[b.line_number + 1] = HeadingLines[k]

\* a boundary on the second page, not on its first line
C17_Witness ==
    /\ pc = "detected"
    /\ \E k \in 1..Len(boundaries) :
           /\ boundaries[k].page_number = 1
           /\ boundaries[k].line_number > LinesBefore(1)
    /\ \E k \in 1..Len(boundaries) : boundaries[k].page_number = 0

\* the boundaries before boundary k that are open at level l when k is met:
\* the last one of level l, if no boundary of level l or above came after it
AncestorAt(k, l) ==
    {j \in 1..(k - 1) :
        /\ boundaries[j].level = l
        /\ \A i \in (j + 1)..(k - 1) : boundaries[i].level > l}

OpenLevels(k) == {l \in 1..(boundaries[k].level - 1) : AncestorAt(k, l) # {}}

\* the open ancestors of boundary k in increasing level order
AncestorList(k) ==
    LET ls == SortedLevels(OpenLevels(k))
    IN  [n \in 1..Len(ls) |-> boundaries[CHOOSE j \in AncestorAt(k, ls[n]) : TRUE]]

IdOf(b) == IF b.id # None THEN b.id ELSE IF b.title # None THEN b.title ELSE EmptyStr

TitleOf(b) == IF b.title # None THEN b.title ELSE IF b.id # None THEN b.id ELSE EmptyStr

\* the ancestor map of build_manifest after the first k boundaries
AncestorMap(k) ==
    ManifestLoop(SubSeq(boundaries, 1, k), profile.manual_id, <<>>, <<>>).current_ancestors

\* C18: the manifest has one entry per boundary, in boundary order; the chunk_id
\* of an entry is the manual id, the ids of the ancestors still open (those of
\* a level below the boundary's, none of level >= L) in level order and its
\* own id, and hierarchy_path is the titles of the same; after each boundary
\* the ancestor map holds the open levels and the boundary's level, none above.
C18_AncestorTracking ==
    pc = "manifest" =>
        /\ Len(manifest.entries) = Len(boundaries)
        /\ \A k \in 1..Len(boundaries) :
               LET b    == boundaries[k]
                   e    == manifest.entries[k]
                   ancs == AncestorList(k)
               IN  /\ e.level = b.level
                   /\ e.line_range.start = b.line_number
                   /\ e.chunk_id = <<manifest.manual_id>>
                                      \o [n \in 1..Len(ancs) |-> IdOf(ancs[n])]
                                      \o <<IdOf(b)>>
                   /\ e.hierarchy_path = [n \in 1..Len(ancs) |-> TitleOf(ancs[n])]
                                            \o <<TitleOf(b)>>
                   /\ DOMAIN AncestorMap(k) = OpenLevels(k) \cup {b.level}
                   /\ \A l \in DOMAIN AncestorMap(k) : l <= b.level

\* a boundary that closes a deeper level, and an entry below it three levels deep
C18_Witness ==
    /\ pc = "manifest"
    /\ \E k \in 2..Len(boundaries) :
           /\ boundaries[k].level < boundaries[k - 1].level
           /\ boundaries[k - 1].level \in DOMAIN AncestorMap(k - 1)
           /\ boundaries[k - 1].level \notin DOMAIN AncestorMap(k)
           /\ OpenLevels(k) # {}
    /\ \E k \in 1..Len(manifest.entries) : Len(manifest.entries[k].hierarchy_path) = 3

\* the position of the nearest open ancestor of boundary k, 0 when it has none
ParentIdx(k) ==
    IF OpenLevels(k) = {} THEN 0
    ELSE CHOOSE j \in AncestorAt(k, SetMax(OpenLevels(k))) : TRUE

\* the chunk_ids of the entries whose nearest open ancestor is entry j, in order
ChildrenOf(j) ==
    LET ks == SelectSeq(Idx(Len(manifest.entries)), LAMBDA k : ParentIdx(k) = j)
    IN  [n \in 1..Len(ks) |-> manifest.entries[ks[n]].chunk_id]

\* C19: parent_chunk_id of an entry is the chunk_id of its nearest open ancestor,
\* none when it has no open ancestor, and the children list of every entry is
\* the chunk_ids of the entries it is the nearest open ancestor of, no other.
C19_ParentAndChildren ==
    pc = "manifest" =>
        \A k \in 1..Len(manifest.entries) :
            /\ manifest.entries[k].parent_chunk_id =
                   IF ParentIdx(k) = 0 THEN None
                   ELSE manifest.entries[ParentIdx(k)].chunk_id
            /\ manifest.entries[k].children = ChildrenOf(k)

\* min_content_words of the level of boundary b
MinWordsOf(b) ==
    LET at == {n \in 1..Len(profile.hierarchy) : profile.hierarchy[n].level = b.level}
    IN  IF at = {} THEN 0 ELSE profile.hierarchy[SetMax(at)].min_content_words

\* the words on the lines from boundary k's own line up to the next boundary
\* of the list, or to the end of the document
WordsUpToNext(k) ==
    LET lines == AllLines(pages)
        stop  == IF k + 1 <= Len(boundaries) THEN boundaries[k + 1].line_number
                 ELSE Len(lines)
    IN  Words(SubSeq(lines, boundaries[k].line_number + 1, stop))

\* C20: in the output of filter_boundaries, every boundary of a level with
\* min_content_words = N > 0 has at least N words on the lines from its own
\* line up to the next boundary of the output, or the document end.
C20_ShortBoundariesDropped ==
    pc = "filtered" =>
        \A k \in 1..Len(boundaries) :
            MinWordsOf(boundaries[k]) > 0 => WordsUpToNext(k) >= MinWordsOf(boundaries[k])

\* pass 3 dropped two or more boundaries and kept one of a level with a minimum
C20_Witness ==
    /\ pc = "filtered"
    /\ Len(FilterWithoutPass3(detect_boundaries(pages, profile), profile, pages))
           >= Len(boundaries) + 2
    /\ \E k \in 1..Len(boundaries) : MinWordsOf(boundaries[k]) > 0

\* min_gap_lines of the level of boundary b
MinGapOf(b) ==
    LET at == {n \in 1..Len(profile.hierarchy) : profile.hierarchy[n].level = b.level}
    IN  IF at = {} THEN 0 ELSE profile.hierarchy[SetMax(at)].min_gap_lines

\* the boundaries that reach pass 2: those passes 0 and 1 let through
BeforePass2 ==
    Pass1BlankBefore(Pass0KnownId(detect_boundaries(pages, profile), profile),
                     profile, AllLines(pages))

\* the positions in BeforePass2, among the first k, that pass 2 keeps: position
\* k is dropped when its level has a minimum gap and the last kept position
\* of the same level is less than that many lines before it
RECURSIVE GapKept(_)
GapKept(k) ==
    IF k = 0 THEN {}
    ELSE LET b    == BeforePass2[k]
             same == {j \in GapKept(k - 1) : BeforePass2[j].level = b.level}
         IN  IF /\ MinGapOf(b) > 0
                /\ same # {}
                /\ b.line_number - BeforePass2[SetMax(same)].line_number < MinGapOf(b)
             THEN GapKept(k - 1)
             ELSE GapKept(k - 1) \cup {k}

\* no level of the profile has a word minimum: pass 3 removes nothing
NoWordMinimum ==
    \A n \in 1..Len(profile.hierarchy) : profile.hierarchy[n].min_content_words = 0

\* C21: pass 2 drops a boundary exactly when its level has min_gap_lines = N > 0
\* and its line number minus that of the last same-level boundary kept so far
\* is below N: the output is the kept boundaries in their order, the first
\* boundary of a level among them.
C21_MinGap ==
    (pc = "filtered" /\ NoWordMinimum) =>
        LET kept == SortedLevels(GapKept(Len(BeforePass2)))
        IN  /\ boundaries = [n \in 1..Len(kept) |-> BeforePass2[kept[n]]]
            /\ \A k \in 1..Len(BeforePass2) :
                   (\A j \in 1..(k - 1) : BeforePass2[j].level # BeforePass2[k].level)
                       => \E n \in 1..Len(boundaries) : boundaries[n] = BeforePass2[k]

\* a boundary kept at a gap of exactly N from the last kept one of its level,
\* with a same-level boundary dropped by pass 2 between the two, and a boundary
\* that pass 0 removed before pass 2
C21_Witness ==
    /\ pc = "filtered" /\ NoWordMinimum
    /\ Len(BeforePass2) < Len(detect_boundaries(pages, profile))
    /\ \E j, d, k \in 1..Len(BeforePass2) :
           /\ j < d /\ d < k
           /\ BeforePass2[j].level = BeforePass2[k].level
           /\ BeforePass2[d].level = BeforePass2[k].level
           /\ MinGapOf(BeforePass2[k]) > 0
           /\ BeforePass2[k].line_number - BeforePass2[j].line_number
                  = MinGapOf(BeforePass2[k])
           /\ \E n \in 1..Len(boundaries) : boundaries[n] = BeforePass2[j]
           /\ \E n \in 1..Len(boundaries) : boundaries[n] = BeforePass2[k]
           /\ \A n \in 1..Len(boundaries) : boundaries[n] # BeforePass2[d]

\* the level of boundary b requires a known id, has a list of known ids, and
\* the id of b is missing or not in the list
UnknownId(b) ==
    \E n \in 1..Len(profile.hierarchy) :
        /\ profile.hierarchy[n].level = b.level
        /\ profile.hierarchy[n].require_known_id
        /\ profile.hierarchy[n].known_ids # {}
        /\ (b.id = None \/ b.id \notin profile.hierarchy[n].known_ids)

\* the blank-line, gap and word filters are all off for the level
LaterPassesOff(level) ==
    \A n \in 1..Len(profile.hierarchy) : profile.hierarchy[n].level = level =>
        /\ ~profile.hierarchy[n].require_blank_before
        /\ profile.hierarchy[n].min_gap_lines = 0
        /\ profile.hierarchy[n].min_content_words = 0

\* C22: no boundary with a missing or unlisted id is in the output for a level
\* that requires a known id and has a non-empty list; and of a level whose
\* other filters are off, the output holds exactly the boundaries detected
\* minus those, so all of them when the list is empty or the flag is false.
C22_KnownIdGate ==
    pc = "filtered" =>
        /\ \A k \in 1..Len(boundaries) : ~UnknownId(boundaries[k])
        /\ \A n \in 1..Len(profile.hierarchy) :
               LaterPassesOff(profile.hierarchy[n].level) =>
                   SelectSeq(boundaries, LAMBDA b : b.level = profile.hierarchy[n].level)
                     = SelectSeq(detect_boundaries(pages, profile), LAMBDA b :
                           b.level = profile.hierarchy[n].level /\ ~UnknownId(b))

\* pass 0 dropped a boundary without an id and one with an unlisted id, and
\* kept one with a listed id
C22_Witness ==
    /\ pc = "filtered"
    /\ \E k \in 1..Len(boundaries) :
           /\ boundaries[k].id # None
           /\ \E n \in 1..Len(profile.hierarchy) :
                  /\ profile.hierarchy[n].level = boundaries[k].level
                  /\ profile.hierarchy[n].require_known_id
                  /\ boundaries[k].id \in profile.hierarchy[n].known_ids
    /\ LET found == detect_boundaries(pages, profile)
       IN  /\ \E k \in 1..Len(found) : UnknownId(found[k]) /\ found[k].id = None
           /\ \E k \in 1..Len(found) : UnknownId(found[k]) /\ found[k].id # None

\* a level that requires a known id with an empty list: its boundaries stay
C22_EmptyListWitness ==
    /\ pc = "filtered"
    /\ \E k \in 1..Len(boundaries) : \E n \in 1..Len(profile.hierarchy) :
           /\ profile.hierarchy[n].level = boundaries[k].level
           /\ profile.hierarchy[n].require_known_id
           /\ profile.hierarchy[n].known_ids = {}

\* every filter is disabled for the level
AllFiltersOff(level) ==
    /\ LaterPassesOff(level)
    /\ \A n \in 1..Len(profile.hierarchy) : profile.hierarchy[n].level = level =>
           (~profile.hierarchy[n].require_known_id \/ profile.hierarchy[n].known_ids = {})

\* C23: the boundaries of a level with all filters disabled are in the output
\* of filter_boundaries as they were detected, whatever the other levels'
\* filters; when all levels are so configured the output is the input.
C23_DisabledLevelsUntouched ==
    pc = "filtered" =>
        LET found == detect_boundaries(pages, profile)
        IN  /\ \A n \in 1..Len(profile.hierarchy) :
                   AllFiltersOff(profile.hierarchy[n].level) =>
                       SelectSeq(boundaries, LAMBDA b : b.level = profile.hierarchy[n].level)
                         = SelectSeq(found, LAMBDA b : b.level = profile.hierarchy[n].level)
            /\ (\A n \in 1..Len(profile.hierarchy) :
                    AllFiltersOff(profile.hierarchy[n].level)) => boundaries = found

\* a boundary of a filtered level was dropped right before a boundary of a
\* level with all filters disabled, which stays
C23_Witness ==
    /\ pc = "filtered"
    /\ LET found == detect_boundaries(pages, profile)
       IN  \E k \in 1..(Len(found) - 1) :
               /\ ~AllFiltersOff(found[k].level)
               /\ \A n \in 1..Len(boundaries) : boundaries[n] # found[k]
               /\ AllFiltersOff(found[k + 1].level)
               /\ \E n \in 1..Len(boundaries) : boundaries[n] = found[k + 1]

\* the input chunks of a merge call whose text is in chunk n of the result,
\* as positions in the input list (line id n is the text of input chunk n)
MergedFrom(n) ==
    {ret.working[n].text[i].id : i \in {j \in 1..Len(ret.working[n].text) :
                                            ~IsBlank(ret.working[n].text[j])}}

\* the texts of the input chunks lo..hi, each before the next, joined by "\n\n"
RECURSIVE JoinedTexts(_, _)
JoinedTexts(lo, hi) ==
    IF lo = hi THEN args.chunks[hi].text
    ELSE JoinPara(JoinedTexts(lo, hi - 1), args.chunks[hi].text)

Level1Of(chunk) == IF Len(chunk.chunk_id) >= 2 THEN chunk.chunk_id[2] ELSE EmptyStr

\* C24: every chunk merge_small_across_entries returns is a run of consecutive
\* input chunks, the runs in input order; a run of more than one chunk has one
\* level-1 id, every chunk of it but the last is below min_tokens, its size is
\* at most max_tokens, and it carries the last chunk's chunk_id and metadata
\* with the texts in input order.
C24_MergeGuards ==
    (pc = "ret" /\ args.fn = "merge") =>
        /\ UNION {MergedFrom(n) : n \in 1..Len(ret.working)} = 1..Len(args.chunks)
        /\ \A n \in 1..Len(ret.working) :
               LET lo == SetMin(MergedFrom(n))
                   hi == SetMax(MergedFrom(n))
               IN  /\ MergedFrom(n) = lo..hi
                   /\ n > 1 => lo = SetMax(MergedFrom(n - 1)) + 1
                   /\ ret.working[n].text = JoinedTexts(lo, hi)
                   /\ ret.working[n].chunk_id = args.chunks[hi].chunk_id
                   /\ ret.working[n].metadata = args.chunks[hi].metadata
                   /\ hi > lo =>
                          /\ \A c \in lo..hi :
                                 Level1Of(args.chunks[c]) = Level1Of(args.chunks[hi])
                          /\ \A c \in lo..(hi - 1) :
                                 Words(args.chunks[c].text) * TOKEN_ESTIMATE_FACTOR
                                     < args.min_tokens
                          /\ Words(ret.working[n].text) * TOKEN_ESTIMATE_FACTOR
                                 <= args.max_tokens

\* two small chunks merged, the resulting chunk left apart from a small chunk
\* of another group, and a small chunk left apart from a chunk of its group
\* because the two would pass the ceiling
C24_Witness ==
    /\ pc = "ret" /\ args.fn = "merge"
    /\ \E n \in 1..(Len(ret.working) - 1) :
           /\ Cardinality(MergedFrom(n)) > 1
           /\ Words(ret.working[n].text) < args.min_tokens
           /\ Level1Of(ret.working[n]) # Level1Of(ret.working[n + 1])
    /\ \E n \in 1..(Len(ret.working) - 1) :
           /\ Words(ret.working[n].text) < args.min_tokens
           /\ Level1Of(ret.working[n]) = Level1Of(ret.working[n + 1])

\* C25: the vehicle_models, engine_applicability and drivetrain_applicability
\* of every chunk assemble_chunks returns are the names of the profile found
\* in the chunk's own text, ["all"] when none is found.
C25_TagsFromChunkText ==
    pc = "done" =>
        \A n \in 1..Len(result_chunks) :
            LET tags == tag_vehicle_applicability(result_chunks[n].text, profile)
            IN  /\ result_chunks[n].metadata.vehicle_models = tags.vehicle_models
                /\ result_chunks[n].metadata.engine_applicability
                       = tags.engine_applicability
                /\ result_chunks[n].metadata.drivetrain_applicability
                       = tags.drivetrain_applicability

\* the non-blank lines of the texts of the returned chunks, in output order
OutputLines ==
    SelectSeq(Concat([n \in 1..Len(result_chunks) |-> result_chunks[n].text]),
              LAMBDA l : ~IsBlank(l))

\* the words of document line q in the returned chunks, over all its pieces
WordsReturned(q) ==
    Words(SelectSeq(OutputLines, LAMBDA l : l.id = AllLines(pages)[q].id))

\* line q is in the span of an entry that is not under a skip section
InAssembledSpan(q) ==
    \E e \in 1..Len(manifest.entries) :
        ~FallsUnderSkip(manifest.entries[e]) /\ q \in SpanOf(e)

\* C26: the returned chunks hold every word of every line in the span of a
\* non-skipped entry once, no word of any other line, and the lines in
\* document order.
C26_NoLossNoDuplication ==
    pc = "done" =>
        /\ \A q \in 1..Len(AllLines(pages)) : ~IsBlank(AllLines(pages)[q]) =>
               WordsReturned(q) = IF InAssembledSpan(q) THEN AllLines(pages)[q].w ELSE 0
        /\ \A i, j \in 1..Len(OutputLines) :
               i < j => OutputLines[i].id <= OutputLines[j].id

\* C27: every chunk assemble_chunks returns has an estimated token count of at
\* most the ceiling of the size split.
C27_ChunksWithinCeiling ==
    pc = "done" =>
        \A n \in 1..Len(result_chunks) : count_tokens(result_chunks[n].text) <= MaxTokensR2

\* C28: chunk identifiers are unique: the entries of the manifest have pairwise
\* distinct chunk_id values, and so have the chunks assemble_chunks returns.
C28_ChunkIdsUnique ==
    /\ manifest # NoManifest =>
           \A i, j \in 1..Len(manifest.entries) :
               i # j => manifest.entries[i].chunk_id # manifest.entries[j].chunk_id
    /\ pc = "done" =>
           \A i, j \in 1..Len(result_chunks) :
               i # j => result_chunks[i].chunk_id # result_chunks[j].chunk_id

\* An adjacent pair merge_small_across_entries would merge: the earlier chunk is
\* undersized, both lie in one level-1 group, and joined they fit the ceiling.
Mergeable(chunks, n, min_tokens, max_tokens) ==
    /\ count_tokens(chunks[n].text) < min_tokens
    /\ Level1Of(chunks[n]) = Level1Of(chunks[n + 1])
    /\ count_tokens(JoinPara(chunks[n].text, chunks[n + 1].text)) <= max_tokens

\* C29: merge_small_across_entries stops at a fixed point: no adjacent pair of
\* its result is mergeable, applying it to its own result returns the same list,
\* and it stops before the cap on the number of passes is reached.
C29_MergeFixedPoint ==
    (pc = "ret" /\ args.fn = "merge") =>
        /\ \A n \in 1..(Len(ret.working) - 1) :
               ~Mergeable(ret.working, n, args.min_tokens, args.max_tokens)
        /\ merge_small_across_entries(ret.working, args.min_tokens, args.max_tokens)
               = ret.working
        /\ ret.passes < max_passes

\* A call that merged some chunks and left several: a pass with merges, then a
\* stable pass, with an undersized chunk left in front of a same-group neighbour
\* it cannot join for size.
C29_Witness ==
    /\ pc = "ret" /\ args.fn = "merge"
    /\ Len(ret.working) < Len(args.chunks)
    /\ ret.passes = 2
    /\ \E n \in 1..(Len(ret.working) - 1) :
           /\ count_tokens(ret.working[n].text) < args.min_tokens
           /\ Level1Of(ret.working[n]) = Level1Of(ret.working[n + 1])

\* the boundaries pass 3 removed: those that reached it and are not in the output
RemovedByPass3 ==
    LET before == FilterWithoutPass3(detect_boundaries(pages, profile), profile, pages)
    IN  {before[n] : n \in {m \in 1..Len(before) :
            \A k \in 1..Len(boundaries) : boundaries[k] # before[m]}}

\* the words on the lines from the line of b up to the next boundary that
\* remains in the output, or to the end of the document
WordsUpToNextKept(b) ==
    LET lines == AllLines(pages)
        later == {boundaries[k].line_number : k \in {m \in 1..Len(boundaries) :
                     boundaries[m].line_number > b.line_number}}
        stop  == IF later = {} THEN Len(lines)
                 ELSE CHOOSE x \in later : \A y \in later : x <= y
    IN  Words(SubSeq(lines, b.line_number + 1, stop))

\* C30: a boundary removed by pass 3 has fewer than min_content_words words on
\* the lines from its own line up to the next boundary of the output, or the
\* document end.
C30_NoOverPruning ==
    pc = "filtered" =>
        \A b \in RemovedByPass3 : WordsUpToNextKept(b) < MinWordsOf(b)

====
